---------------------------- MODULE Spec2Model ----------------------------
(***************************************************************************)
(* Model of the commit-summary classification and quality-gate pipeline of *)
(* goal (goal/enhanced_summary.py) and of the commands of goal/cli.py that *)
(* drive it (push, validate).                                              *)
(*                                                                         *)
(* Python strings are TLA+ strings; TLC evaluates Len, SubSeq and \o on    *)
(* them, so the string functions below work on the characters as the code  *)
(* does.                                                                   *)
(***************************************************************************)
EXTENDS Integers, Sequences, FiniteSets, TLC

VARIABLES
    pc,         \* position of the running command / operation last applied
    files,      \* the changed-file list handed to the pipeline
    entities,   \* names of the added entities (analysis.aggregated.added_entities)
    added,      \* lines added
    deleted,    \* lines deleted
    config,     \* the 'quality' configuration the validator was built with
    contents,   \* what is on disk: for each file, whether it can be read and
                \* the names its import statements give
    summary,    \* the Summary being generated, validated and fixed
    out,        \* result of the operation last applied
    opts,       \* options and prompts' context of the running cli command
    analysis,   \* what the analyzers found in the staged changes
    commit_title,   \* push: commit_title
    commit_msg,     \* push: commit_msg
    validation,     \* push / validate: the last result of validator.validate
    suggested,      \* push / validate: the result of validator.auto_fix
    trace,      \* the validator calls of the run, in order
    commits,    \* the commits the run created, in order
    nulls,      \* the keys of the summary dict whose value is None
    diff_content,   \* the text of the staged diff
    world,      \* the working directory: whether is_git_repository() holds, whether
                \* it holds any file, whether changes are staged or unstaged
    io,         \* the prompts answered and the git commands run, in order
    tree,       \* the project tree: the text of each file, by the parts of its path
    new_version \* the version push bumps to

cliVars == <<opts, analysis, commit_title, commit_msg, validation, suggested, trace, commits>>

\* what lies outside the commit pipeline
envVars == <<nulls, diff_content, world, io, tree, new_version>>

vars == <<pc, files, entities, added, deleted, config, contents, summary, out,
          opts, analysis, commit_title, commit_msg, validation, suggested, trace,
          commits, nulls, diff_content, world, io, tree, new_version>>

-----------------------------------------------------------------------------
(* Bounds of the model *)

MaxFiles == 2
MaxChanged == 4
MaxRelLen == 3
MaxChained == 3
MaxBranches == 2

-----------------------------------------------------------------------------
(* Python str / re helpers *)

BoundedSeq(S, n) == UNION {[1..k -> S] : k \in 0..n}

\* the changed-file lists git reports: at least one path, no path twice
ChangedLists(S, n) ==
    {fs \in BoundedSeq(S, n) :
        fs # <<>> /\ \A i, j \in 1..Len(fs) : fs[i] = fs[j] => i = j}

\* s[i:i+1] counted from 1: the empty string outside the string
Char(s, i) == IF 1 <= i /\ i <= Len(s) THEN SubSeq(s, i, i) ELSE ""

UpperLetters == "ABCDEFGHIJKLMNOPQRSTUVWXYZ"
LowerLetters == "abcdefghijklmnopqrstuvwxyz"

LowerSet == {Char(LowerLetters, i) : i \in 1..26}
UpperSet == {Char(UpperLetters, i) : i \in 1..26}
DigitSet == {Char("0123456789", i) : i \in 1..10}
ToLower == [c \in UpperSet |->
              Char(LowerLetters, CHOOSE i \in 1..26 : Char(UpperLetters, i) = c)]

IsAlpha(c) == c \in LowerSet \/ c \in UpperSet
\* \w of re
IsWordChar(c) == IsAlpha(c) \/ c \in DigitSet \/ c = "_"

LowerChar(c) == IF c \in UpperSet THEN ToLower[c] ELSE c

RECURSIVE Lower(_)
\* str.lower()
Lower(s) == IF s = "" THEN "" ELSE LowerChar(Char(s, 1)) \o Lower(Tail(s))

\* sub in s
Contains(s, sub) ==
    \E i \in 1..(Len(s) - Len(sub) + 1) : SubSeq(s, i, i + Len(sub) - 1) = sub

\* s.endswith(suf)
EndsWith(s, suf) ==
    Len(suf) <= Len(s) /\ SubSeq(s, Len(s) - Len(suf) + 1, Len(s)) = suf

\* s.startswith(pre)
StartsWith(s, pre) ==
    Len(pre) <= Len(s) /\ SubSeq(s, 1, Len(pre)) = pre

RECURSIVE Join(_, _)
\* sep.join(parts)
Join(parts, sep) ==
    IF parts = <<>> THEN ""
    ELSE IF Len(parts) = 1 THEN parts[1]
    ELSE parts[1] \o sep \o Join(Tail(parts), sep)

\* re.compile(p, re.IGNORECASE).search(text) for a pattern p without
\* metacharacters, given lowered == text.lower()
SearchIgnoreCase(p, lowered) == Contains(lowered, Lower(p))

Max(a, b) == IF a >= b THEN a ELSE b
Min(a, b) == IF a <= b THEN a ELSE b

-----------------------------------------------------------------------------
(* SummaryQualityFilter: intent classification *)

REFACTOR_PATTERNS ==
    {"analyzer", "deep_", "enhanced_", "AST", "refactor", "restructure",
     "reorganize", "simplif", "clean", "framework", "intelligence", "git_"}
FEAT_PATTERNS == {"new_", "initial", "support", "implement", "create"}
FIX_PATTERNS == {"fix", "bug", "issue", "error", "patch", "hotfix"}

\* sum(1 for p in patterns if p.search(combined)), given combined.lower()
PatternScore(patterns, lowered) ==
    Cardinality({p \in patterns : SearchIgnoreCase(p, lowered)})

StrongDeleted == 1000
ChurnDeleted == 250
ChurnPercent == 20
NetReduction == 100
ManyFilesCount == 10
ManyFilesBonus == 3
MeaningfulDeleted == 100

\* def all-docs test of classify_intent_smart
IsDocsFile(f) == EndsWith(f, ".md") \/ Contains(Lower(f), "doc")
IsConfigFile(f) ==
    \E e \in {".yaml", ".toml", ".json", ".ini"} : EndsWith(f, e)

\* all(... for f in files)
AllDocs(fs) == \A i \in 1..Len(fs) : IsDocsFile(fs[i])
AllConfig(fs) == \A i \in 1..Len(fs) : IsConfigFile(fs[i])

\* ' '.join(files) + ' ' + ' '.join(e.get('name', '') for e in entities)
Combined(fs, ents) == Join(fs, " ") \o " " \o Join(ents, " ")

\* the churn tests without the test of the net reduction
ChurnSignal_no_net_test(a, d) ==
    \/ d >= StrongDeleted
    \/ (d >= ChurnDeleted /\ a + d # 0 /\ d * 100 >= ChurnPercent * (a + d))

\* the three churn tests ("Signal 1")
ChurnSignal(a, d) ==
    \/ d >= StrongDeleted
    \/ (d >= ChurnDeleted /\ a + d # 0 /\ d * 100 >= ChurnPercent * (a + d))
    \/ a - d < -NetReduction

\* max(scores, key=scores.get) over the dict refactor, feat, fix: the first
\* key with the greatest score
MaxScoreKey(r, f, x) ==
    IF r >= f /\ r >= x THEN "refactor"
    ELSE IF f >= x THEN "feat"
    ELSE "fix"

\* classify_intent_smart with the docs-only and config-only tests moved ahead
\* of the churn tests
classify_intent_smart_docs_first(fs, ents, a, d) ==
    LET combined == Lower(Combined(fs, ents))
        net == a - d
        refactor0 == PatternScore(REFACTOR_PATTERNS, combined)
        feat_score == PatternScore(FEAT_PATTERNS, combined)
        fix_score == PatternScore(FIX_PATTERNS, combined)
        refactor_score ==
            IF Len(fs) > ManyFilesCount /\ net < 0
            THEN refactor0 + ManyFilesBonus ELSE refactor0
    IN  IF AllDocs(fs) THEN "docs"
        ELSE IF AllConfig(fs) THEN "chore"
        ELSE IF ChurnSignal(a, d) THEN "refactor"
        ELSE IF Max(refactor_score, Max(feat_score, fix_score)) = 0
             THEN (IF net <= 0 THEN "refactor" ELSE "feat")
        ELSE IF d >= MeaningfulDeleted /\ refactor_score >= feat_score
                /\ refactor_score >= fix_score
             THEN "refactor"
        ELSE MaxScoreKey(refactor_score, feat_score, fix_score)

\* classify_intent_smart with the keyword scores consulted before the
\* docs-only and config-only tests
classify_intent_smart_keywords_first(fs, ents, a, d) ==
    LET combined == Lower(Combined(fs, ents))
        net == a - d
        refactor0 == PatternScore(REFACTOR_PATTERNS, combined)
        feat_score == PatternScore(FEAT_PATTERNS, combined)
        fix_score == PatternScore(FIX_PATTERNS, combined)
        refactor_score ==
            IF Len(fs) > ManyFilesCount /\ net < 0
            THEN refactor0 + ManyFilesBonus ELSE refactor0
    IN  IF ChurnSignal(a, d) THEN "refactor"
        ELSE IF Max(refactor_score, Max(feat_score, fix_score)) > 0
             THEN (IF d >= MeaningfulDeleted /\ refactor_score >= feat_score
                      /\ refactor_score >= fix_score
                   THEN "refactor"
                   ELSE MaxScoreKey(refactor_score, feat_score, fix_score))
        ELSE IF AllDocs(fs) THEN "docs"
        ELSE IF AllConfig(fs) THEN "chore"
        ELSE IF net <= 0 THEN "refactor" ELSE "feat"

\* classify_intent_smart without the preference for refactor: the highest
\* score wins and a tie goes to feat, then fix
classify_intent_smart_feat_on_tie(fs, ents, a, d) ==
    LET combined == Lower(Combined(fs, ents))
        net == a - d
        refactor0 == PatternScore(REFACTOR_PATTERNS, combined)
        feat_score == PatternScore(FEAT_PATTERNS, combined)
        fix_score == PatternScore(FIX_PATTERNS, combined)
        refactor_score ==
            IF Len(fs) > ManyFilesCount /\ net < 0
            THEN refactor0 + ManyFilesBonus ELSE refactor0
    IN  IF ChurnSignal(a, d) THEN "refactor"
        ELSE IF AllDocs(fs) THEN "docs"
        ELSE IF AllConfig(fs) THEN "chore"
        ELSE IF Max(refactor_score, Max(feat_score, fix_score)) = 0
             THEN (IF net <= 0 THEN "refactor" ELSE "feat")
        ELSE IF feat_score >= fix_score /\ feat_score >= refactor_score THEN "feat"
        ELSE IF fix_score >= refactor_score THEN "fix"
        ELSE "refactor"

classify_intent_smart(fs, ents, a, d) ==
    LET combined == Lower(Combined(fs, ents))
        net == a - d
        refactor0 == PatternScore(REFACTOR_PATTERNS, combined)
        feat_score == PatternScore(FEAT_PATTERNS, combined)
        fix_score == PatternScore(FIX_PATTERNS, combined)
        refactor_score ==
            IF Len(fs) > ManyFilesCount /\ net < 0
            THEN refactor0 + ManyFilesBonus ELSE refactor0
    IN  IF ChurnSignal(a, d) THEN "refactor"
        ELSE IF AllDocs(fs) THEN "docs"
        ELSE IF AllConfig(fs) THEN "chore"
        ELSE IF Max(refactor_score, Max(feat_score, fix_score)) = 0
             THEN (IF net <= 0 THEN "refactor" ELSE "feat")
        ELSE IF d >= MeaningfulDeleted /\ refactor_score >= feat_score
                /\ refactor_score >= fix_score
             THEN "refactor"
        ELSE MaxScoreKey(refactor_score, feat_score, fix_score)

-----------------------------------------------------------------------------
(* pathlib.Path *)

\* index of the last occurrence of character c in s, 0 when there is none
LastIndexOf(s, c) ==
    LET hits == {i \in 1..Len(s) : Char(s, i) = c}
    IN  IF hits = {} THEN 0 ELSE CHOOSE i \in hits : \A j \in hits : j <= i

\* index of the first occurrence of character c in s at or after position k,
\* 0 when there is none
FirstIndexFrom(s, c, k) ==
    LET hits == {i \in k..Len(s) : Char(s, i) = c}
    IN  IF hits = {} THEN 0 ELSE CHOOSE i \in hits : \A j \in hits : i <= j

\* Path(f).name
PathName(f) == SubSeq(f, LastIndexOf(f, "/") + 1, Len(f))

\* Path(f).stem: the name without its last suffix; a leading or a trailing
\* dot starts no suffix
PathStem(f) ==
    LET name == PathName(f)
        i == LastIndexOf(name, ".")
    IN  IF 1 < i /\ i < Len(name) THEN SubSeq(name, 1, i - 1) ELSE name

-----------------------------------------------------------------------------
(* SummaryQualityFilter: deduplication and graph cleaning *)

GENERIC_NODES ==
    {"base", "__init__", "utils", "common", "helpers", "constants",
     "types", "exceptions", "models", "schemas"}

MaxRelations == 10

Range(seq) == {seq[i] : i \in 1..Len(seq)}

\* the (from, to) pair dedupe_relations keys an edge by
Edge(r) == <<r.from, r.to>>

RECURSIVE UniqueEdges(_, _)
\* the loop of dedupe_relations: keeps an edge unless it was seen or is a
\* self-loop
UniqueEdges(rels, seen) ==
    IF rels = <<>> THEN <<>>
    ELSE LET r == Head(rels)
         IN  IF Edge(r) \notin seen /\ r.from # r.to
             THEN <<r>> \o UniqueEdges(Tail(rels), seen \cup {Edge(r)})
             ELSE UniqueEdges(Tail(rels), seen)

\* dedupe_relations without the final slice
dedupe_relations_uncapped(relations) == UniqueEdges(relations, {})

\* dedupe_relations putting each new edge in front of the ones it kept
dedupe_relations_reversed(relations) ==
    LET RECURSIVE Rev(_)
        Rev(q) == IF q = <<>> THEN <<>> ELSE Append(Rev(Tail(q)), Head(q))
        unique == Rev(UniqueEdges(relations, {}))
    IN  SubSeq(unique, 1, Min(Len(unique), MaxRelations))

\* dedupe_relations without the self-loop test
dedupe_relations_keep_loops(relations) ==
    LET RECURSIVE U(_, _)
        U(rels, seen) ==
            IF rels = <<>> THEN <<>>
            ELSE IF Edge(Head(rels)) \notin seen
                 THEN <<Head(rels)>> \o U(Tail(rels), seen \cup {Edge(Head(rels))})
                 ELSE U(Tail(rels), seen)
        unique == U(relations, {})
    IN  SubSeq(unique, 1, Min(Len(unique), MaxRelations))

dedupe_relations(relations) ==
    LET unique == UniqueEdges(relations, {})
    IN  SubSeq(unique, 1, Min(Len(unique), MaxRelations))

RECURSIVE UniqueNames(_, _)
\* the loop of dedupe_files: keeps a file unless its basename was seen
UniqueNames(fs, seen) ==
    IF fs = <<>> THEN <<>>
    ELSE LET f == Head(fs)
         IN  IF PathName(f) \notin seen
             THEN <<f>> \o UniqueNames(Tail(fs), seen \cup {PathName(f)})
             ELSE UniqueNames(Tail(fs), seen)

dedupe_files(fs) == UniqueNames(fs, {})

IsGenericEdge(r) ==
    Lower(r.from) \in GENERIC_NODES \/ Lower(r.to) \in GENERIC_NODES

NotGenericEdge(r) == ~IsGenericEdge(r)

\* filter_generic_nodes looking at the 'from' end of an edge only
filter_generic_nodes_from_only(relations) ==
    LET Keep(r) == Lower(r.from) \notin GENERIC_NODES
    IN  SelectSeq(relations, Keep)

filter_generic_nodes(relations) == SelectSeq(relations, NotGenericEdge)

-----------------------------------------------------------------------------
(* SummaryQualityFilter: capabilities *)

CapabilityIds ==
    {"ast_analysis", "deep_analyzer", "enhanced_summary", "quality_metrics",
     "multi_language", "dependency_graph", "cli_interface",
     "output_formatting", "config_system", "changelog"}

\* CAPABILITY_PRIORITY.get(cap_id, 0)
CapabilityPriority(id) ==
    CASE id = "ast_analysis" -> 10
      [] id = "deep_analyzer" -> 10
      [] id = "enhanced_summary" -> 9
      [] id = "quality_metrics" -> 8
      [] id = "multi_language" -> 7
      [] id = "dependency_graph" -> 6
      [] id = "cli_interface" -> 5
      [] id = "output_formatting" -> 4
      [] id = "config_system" -> 3
      [] id = "changelog" -> 2
      [] OTHER -> 0

RECURSIVE InsertByPriority(_, _)
\* puts id behind every entry of the sorted list whose priority is not lower
InsertByPriority(sorted, id) ==
    IF sorted = <<>> THEN <<id>>
    ELSE IF CapabilityPriority(Head(sorted)) >= CapabilityPriority(id)
         THEN <<Head(sorted)>> \o InsertByPriority(Tail(sorted), id)
         ELSE <<id>> \o sorted

RECURSIVE StableSortDesc(_, _)
StableSortDesc(caps, acc) ==
    IF caps = <<>> THEN acc
    ELSE StableSortDesc(Tail(caps), InsertByPriority(acc, Head(caps)))

\* prioritize_capabilities with a sort that puts a capability in front of the
\* ones of its own priority
prioritize_capabilities_ties_reversed(caps) ==
    LET RECURSIVE Ins(_, _)
        Ins(sorted, id) ==
            IF sorted = <<>> THEN <<id>>
            ELSE IF CapabilityPriority(Head(sorted)) > CapabilityPriority(id)
                 THEN <<Head(sorted)>> \o Ins(Tail(sorted), id)
                 ELSE <<id>> \o sorted
        RECURSIVE Sort(_, _)
        Sort(rest, acc) ==
            IF rest = <<>> THEN acc ELSE Sort(Tail(rest), Ins(acc, Head(rest)))
    IN  Sort(caps, <<>>)

\* sorted(capabilities, key=get_priority, reverse=True): a stable sort
prioritize_capabilities(caps) == StableSortDesc(caps, <<>>)

-----------------------------------------------------------------------------
(* SummaryQualityFilter: title words *)

BANNED_TITLE_WORDS ==
    {"add", "logging", "testing", "performance", "update",
     "improve", "fix", "misc", "various", "some", "stuff",
     "formatting", "auth", "validation", "changes", "updates",
     "modifications", "enhancements", "tweaks", "adjustments"}

\* title.split(':', 1)[1] if ':' in title else title
Description(title) ==
    LET i == FirstIndexFrom(title, ":", 1)
    IN  IF i = 0 THEN title ELSE SubSeq(title, i + 1, Len(title))

RECURSIVE RunEnd(_, _)
\* the last position of the run of letters that holds position i
RunEnd(s, i) == IF IsAlpha(Char(s, i + 1)) THEN RunEnd(s, i + 1) ELSE i

\* the positions at which the matches of re.findall(r"[a-zA-Z]+", s) start:
\* a letter that follows no letter
RunStarts(s) ==
    {i \in 1..Len(s) : IsAlpha(Char(s, i)) /\ ~IsAlpha(Char(s, i - 1))}

\* set(re.findall(r"[a-zA-Z]+", desc.lower()))
DescWords(title) ==
    LET desc == Lower(Description(title))
    IN  {SubSeq(desc, i, RunEnd(desc, i)) : i \in RunStarts(desc)}

\* len(re.findall(r"[a-zA-Z]+", desc.lower()))
DescWordCount(title) == Cardinality(RunStarts(Lower(Description(title))))

\* has_banned_words, for the banned set of the filter; the sorted list is
\* modelled by the set of its members
has_banned_words(banned, title) == banned \cap DescWords(title)

-----------------------------------------------------------------------------
(* The regular expressions over titles *)

\* length of the longest prefix of s made of \w characters
WordPrefixLen(s) ==
    LET ends == {n \in 0..Len(s) : \A k \in 1..n : IsWordChar(Char(s, k))}
    IN  CHOOSE n \in ends : \A m \in ends : m <= n

\* re.match(r'^(\w+)\(([^)]*)\):', title): \w+ is the whole leading run of
\* word characters, which "(" must follow; [^)]* runs to the first ")",
\* which ":" must follow.  Result: [ok, type, scope, rest].
MatchConventional(title) ==
    LET n == WordPrefixLen(title)
        close == FirstIndexFrom(title, ")", n + 2)
    IN  IF /\ n >= 1
           /\ Char(title, n + 1) = "("
           /\ close # 0
           /\ Char(title, close + 1) = ":"
        THEN [ok |-> TRUE,
              type |-> SubSeq(title, 1, n),
              scope |-> SubSeq(title, n + 2, close - 1),
              rest |-> SubSeq(title, close + 2, Len(title))]
        ELSE [ok |-> FALSE, type |-> "", scope |-> "", rest |-> ""]

RECURSIVE LStrip(_)
\* what \s* skips in front of (.*)
LStrip(s) == IF s # "" /\ Char(s, 1) = " " THEN LStrip(Tail(s)) ELSE s

\* re.search(r'\(([^)]+)\)', title): the leftmost "(" that is followed by
\* at least one character other than ")" and then by ")"; 'core' when there
\* is no match
ScopeOf(title) ==
    LET opens == {i \in 1..Len(title) :
                    /\ Char(title, i) = "("
                    /\ FirstIndexFrom(title, ")", i + 1) > i + 1}
    IN  IF opens = {} THEN "core"
        ELSE LET i == CHOOSE k \in opens : \A m \in opens : k <= m
             IN  SubSeq(title, i + 1, FirstIndexFrom(title, ")", i + 1) - 1)

-----------------------------------------------------------------------------
(* SummaryQualityFilter: file categories and the architecture title *)

\* DOMAIN_PATTERNS in dict order
DomainOrder ==
    <<"analyzer", "cli", "api", "model", "service", "util", "config",
      "test", "docs", "quality">>

\* any(re.search(p, fname) for p in DOMAIN_PATTERNS[domain])
DomainMatches(domain, fname) ==
    CASE domain = "analyzer" ->
            \E p \in {"analys", "analyz", "parse", "scan", "inspect"} : Contains(fname, p)
      [] domain = "cli" -> \E p \in {"cli", "command", "arg"} : Contains(fname, p)
      [] domain = "api" ->
            \E p \in {"api", "endpoint", "route", "handler"} : Contains(fname, p)
      [] domain = "model" -> \E p \in {"model", "schema", "entity"} : Contains(fname, p)
      [] domain = "service" ->
            \E p \in {"service", "manager", "provider"} : Contains(fname, p)
      [] domain = "util" -> \E p \in {"util", "helper", "tool"} : Contains(fname, p)
      [] domain = "config" -> \E p \in {"config", "setting", "option"} : Contains(fname, p)
      [] domain = "test" -> \E p \in {"test_", "_test", "spec"} : Contains(fname, p)
      [] domain = "docs" ->
            EndsWith(fname, ".md") \/ Contains(fname, "readme") \/ Contains(fname, "doc")
      [] domain = "quality" ->
            \E p \in {"quality", "metric", "coverage", "dependen"} : Contains(fname, p)

\* the category one file is put in
CategoryOf(f) ==
    LET fname == Lower(f)
        hits == {i \in 1..Len(DomainOrder) : DomainMatches(DomainOrder[i], fname)}
    IN  IF hits # {}
        THEN DomainOrder[CHOOSE i \in hits : \A j \in hits : i <= j]
        ELSE IF EndsWith(fname, ".md") THEN "docs"
        ELSE IF \E e \in {".yaml", ".yml", ".toml", ".json", ".ini"} : EndsWith(fname, e)
             THEN "config"
        ELSE IF Contains(fname, "test") THEN "test"
        ELSE "core"

RECURSIVE AddToCategory(_, _, _)
\* categories[cat].append(f) on a dict kept as the list of its items in
\* insertion order
AddToCategory(cats, cat, f) ==
    IF cats = <<>> THEN << [name |-> cat, files |-> <<f>>] >>
    ELSE IF Head(cats).name = cat
         THEN << [name |-> cat, files |-> Append(Head(cats).files, f)] >> \o Tail(cats)
         ELSE <<Head(cats)>> \o AddToCategory(Tail(cats), cat, f)

RECURSIVE CategorizeInto(_, _)
CategorizeInto(fs, cats) ==
    IF fs = <<>> THEN cats
    ELSE CategorizeInto(Tail(fs), AddToCategory(cats, CategoryOf(Head(fs)), Head(fs)))

categorize_files(fs) == CategorizeInto(fs, <<>>)

\* len(categories.get(name, []))
CategorySize(cats, name) ==
    LET hits == {i \in 1..Len(cats) : cats[i].name = name}
    IN  IF hits = {} THEN 0 ELSE Len(cats[CHOOSE i \in hits : TRUE].files)

\* max(categories.items(), key=lambda x: len(x[1]))[0]: the first of the
\* largest categories
DominantCategory(cats) ==
    LET best == {i \in 1..Len(cats) :
                    \A j \in 1..Len(cats) : Len(cats[j].files) <= Len(cats[i].files)}
    IN  cats[CHOOSE i \in best : \A j \in best : i <= j].name

\* generate_architecture_title; it returns None for an empty category dict,
\* which the f-string of auto_fix renders as "None"
generate_architecture_title(fs, cats) ==
    LET stems == {Lower(PathStem(fs[i])) : i \in 1..Len(fs)}
    IN  IF \E st \in stems : Contains(st, "analyzer") \/ Contains(st, "analysis")
        THEN (IF Len(fs) > 10 THEN "complete analysis framework"
              ELSE "analysis engine improvements")
        ELSE IF \E st \in stems : Contains(st, "git")
             THEN "git integration framework"
        ELSE IF CategorySize(cats, "cli") > 2 THEN "CLI interface overhaul"
        ELSE IF CategorySize(cats, "api") > 0 THEN "API layer enhancements"
        ELSE IF cats # <<>> THEN DominantCategory(cats) \o " module improvements"
        ELSE "None"

\* the emoji of format_net_lines, by name
format_net_lines(a, d) ==
    LET net == a - d
        total == a + d
    IN  IF total = 0 THEN "flat"
        ELSE IF d > 0 /\ d * 100 >= 10 * total
             THEN (IF d >= 250 /\ d * 100 >= 20 * total THEN "down"
                   ELSE IF net < 0 THEN "down"
                   ELSE IF d >= 250 THEN "down"
                   ELSE "chart")
        ELSE IF net < 0 THEN "down"
        ELSE IF net > 100 THEN "up"
        ELSE IF net > 0 THEN "chart"
        ELSE "flat"

-----------------------------------------------------------------------------
(* QualityValidator *)

\* QualityValidator(): the class defaults (src/goal/enhanced_summary.py
\* 339-368); no generic_terms, no min_value_score
EmptyConfig ==
    [generic_terms |-> {},
     max_generic_terms |-> 0,
     min_value_words |-> 3,
     required_metrics |-> 2,
     min_value_score |-> -1,
     max_complexity_percent |-> 200,
     max_duplicate_relations |-> 0,
     min_capabilities |-> 1]

\* the 'quality' section of the default configuration of the CLI
DefaultConfig ==
    [generic_terms |-> {"update", "improve", "enhance", "fix", "change",
                        "modify", "cleaner", "better", "refactor", "misc"},
     max_generic_terms |-> 0,
     min_value_words |-> 3,
     required_metrics |-> 2,
     min_value_score |-> 50,
     max_complexity_percent |-> 200,
     max_duplicate_relations |-> 0,
     min_capabilities |-> 1]

\* min_unique_files_ratio = 0.8, as a fraction
UniqueRatioNum == 4
UniqueRatioDen == 5

\* self.filter.BANNED_TITLE_WORDS after QualityValidator.__init__
BannedWords(cfg) ==
    BANNED_TITLE_WORDS \cup {Lower(t) : t \in cfg.generic_terms}

METRIC_KEYWORDS == {"NET", "Relations:", "Test coverage", "score", "%", "deletions"}

ErrorPenalty == 20
WarningPenalty == 5

\* the intent validate works with: summary['intent'], else the type of a
\* type(scope): title
DeclaredIntent(sm) ==
    IF sm.intent = "" /\ sm.title # "" /\ MatchConventional(sm.title).ok
    THEN MatchConventional(sm.title).type
    ELSE sm.intent

If(cond, kind) == IF cond THEN <<kind>> ELSE <<>>

\* score = max(0, min(100, 100 - 20*len(errors) - 5*len(warnings)))
\* the score without the clamp
ScoreUnclamped(errors, warnings) ==
    100 - ErrorPenalty * Len(errors) - WarningPenalty * Len(warnings)

Score(errors, warnings) ==
    Max(0, Min(100, 100 - ErrorPenalty * Len(errors) - WarningPenalty * Len(warnings)))

\* QualityValidator.validate; errors and warnings are the lists of the
\* failed gates, by the name of the fix each one suggests
validate(cfg, sm, fs) ==
    LET title == sm.title
        metrics == sm.metrics
        relations == IF sm.has_relations THEN sm.relations ELSE <<>>
        capabilities == IF sm.has_capabilities THEN sm.capabilities ELSE <<>>
        intent == DeclaredIntent(sm)
        a == metrics.lines_added
        d == metrics.lines_deleted
        banned == has_banned_words(BannedWords(cfg), title)
        desc_words == DescWords(title)
        generic_count ==
            Cardinality({t \in cfg.generic_terms : Lower(t) \in desc_words})
        smart_intent == classify_intent_smart(fs, sm.added_entities, a, d)
        old_cc == metrics.old_complexity
        new_cc == metrics.new_complexity
        duplicates == Len(relations) - Len(dedupe_relations(relations))
        generic_nodes == Len(relations) - Len(filter_generic_nodes(relations))
        unique_files == dedupe_files(fs)
        metric_count ==
            Cardinality({kw \in METRIC_KEYWORDS :
                            Contains(Lower(sm.body), Lower(kw))})
        errors ==
            If(banned # {}, "remove_banned_words")
            \o If(cfg.generic_terms # {} /\ generic_count > cfg.max_generic_terms,
                  "reduce_generic_terms")
            \o If(DescWordCount(title) < cfg.min_value_words, "expand_title")
            \o If(intent = "feat" /\ smart_intent = "refactor", "reclassify_intent")
            \o If(intent \in {"feat", "fix"} /\ d >= ChurnDeleted
                    /\ smart_intent = "refactor", "fix_hidden_refactor")
            \o If(duplicates > cfg.max_duplicate_relations, "dedupe_relations")
            \o If(generic_nodes > 1, "filter_generic_nodes")
            \o If(Len(fs) > 0 /\ Len(unique_files) * UniqueRatioDen
                                    < UniqueRatioNum * Len(fs), "dedupe_files")
            \o If(Len(capabilities) < cfg.min_capabilities, "add_capabilities")
            \o If(sm.body # "" /\ metric_count < cfg.required_metrics,
                  "expose_metrics")
            \o If(cfg.min_value_score >= 0 /\ metrics.value_score >= 0
                    /\ metrics.value_score < cfg.min_value_score, "raise_value_score")
        warnings ==
            If(old_cc > 0
                 /\ (IF new_cc >= old_cc THEN new_cc - old_cc ELSE old_cc - new_cc) * 100
                        > cfg.max_complexity_percent * old_cc,
               "normalize_complexity")
    IN  [valid |-> Len(errors) = 0,
         errors |-> errors,
         warnings |-> warnings,
         score |-> Score(errors, warnings)]

\* QualityValidator.auto_fix; applied_fixes is the list of the steps that
\* logged a fix, by name
auto_fix(cfg, sm, fs, a, d) ==
    LET categories == categorize_files(fs)
        title0 == sm.title
        banned == has_banned_words(BannedWords(cfg), title0)
        smart_intent == classify_intent_smart(fs, sm.added_entities, a, d)
        \* 1. banned words: architecture title, scope of the old title
        title1 ==
            IF banned # {}
            THEN smart_intent \o "(" \o ScopeOf(title0) \o "): "
                    \o generate_architecture_title(fs, categories)
            ELSE title0
        intent1 == IF banned # {} THEN smart_intent ELSE sm.intent
        \* 1b. wrong intent
        m == MatchConventional(title1)
        reclassify == m.ok /\ m.type # smart_intent /\ smart_intent = "refactor"
        title2 ==
            IF reclassify
            THEN smart_intent \o "(" \o m.scope \o "): " \o LStrip(m.rest)
            ELSE title1
        intent2 == IF reclassify THEN smart_intent ELSE intent1
        \* 2. relations
        relations2 ==
            IF sm.has_relations
            THEN dedupe_relations(filter_generic_nodes(sm.relations))
            ELSE sm.relations
        \* 4. capabilities
        capabilities2 ==
            IF sm.has_capabilities
            THEN prioritize_capabilities(sm.capabilities)
            ELSE sm.capabilities
        applied_fixes ==
            If(banned # {}, "title")
            \o If(reclassify, "intent")
            \o If(sm.has_relations /\ Len(sm.relations) # Len(relations2),
                  "relations")
            \o If(Len(fs) # Len(dedupe_files(fs)), "files")
            \o If(sm.has_capabilities, "capabilities")
            \o If(a # 0 \/ d # 0, "net_lines")
            \o <<"categorized">>
    IN  [sm EXCEPT !.title = title2,
                        !.intent = intent2,
                        !.relations = relations2,
                        !.capabilities = capabilities2,
                        !.net_lines = IF a # 0 \/ d # 0
                                      THEN format_net_lines(a, d) ELSE @,
                        !.categories = categories,
                        !.applied_fixes = applied_fixes]

-----------------------------------------------------------------------------
(* EnhancedSummaryGenerator *)

RECURSIVE Concat(_)
\* the concatenation of a list of lists
Concat(lists) == IF lists = <<>> THEN <<>> ELSE Head(lists) \o Concat(Tail(lists))

\* the edges one import of file f gives: one for every other changed file
\* whose stem is the imported name
EdgesOfImport(fs, f, imp) ==
    Concat([k \in 1..Len(fs) |->
              IF imp = PathStem(fs[k]) /\ f # fs[k]
              THEN << [from |-> PathStem(f), to |-> PathStem(fs[k]), type |-> "imports"] >>
              ELSE <<>>])

\* detect_file_relations: the 'relations' list.  disk[f].imports stands for
\* re.findall(import_pattern, content), each match reduced to its name.
detect_file_relations(fs, disk) ==
    Concat([k \in 1..Len(fs) |->
              IF EndsWith(fs[k], ".py") /\ disk[fs[k]].readable
              THEN Concat([n \in 1..Len(disk[fs[k]].imports) |->
                             EdgesOfImport(fs, fs[k], disk[fs[k]].imports[n])])
              ELSE <<>>])

\* the parts of _format_enhanced_body that can hold a metric keyword: the
\* lines of the IMPACT section and the header of the relation list
FormatBody(fs, relations, a, d) ==
    "IMPACT:"
    \o (IF a # 0 \/ d # 0 THEN " lines (NET)" ELSE "")
    \o (IF relations # <<>> THEN " clean relations" ELSE "")
    \o (IF \E i \in 1..Len(fs) : Contains(Lower(fs[i]), "test")
        THEN " Test coverage: files (%)" ELSE "")
    \o " Framework score: /100"
    \o (IF relations # <<>> THEN " DEPENDENCY FLOW: Relations:" ELSE "")

\* generate_enhanced_summary followed by the title prefix of
\* CommitMessageGenerator.generate_enhanced_summary.  `found` holds what the
\* analyzers found: the description generate_value_title chose, the scope
\* detect_scope chose, the detected capabilities, the entity names and the
\* complexity figures.
generate_enhanced_summary(fs, disk, found, a, d) ==
    LET unique == dedupe_files(fs)
        capabilities == prioritize_capabilities(found.capabilities)
        relations ==
            filter_generic_nodes(dedupe_relations(detect_file_relations(unique, disk)))
        intent == classify_intent_smart(unique, found.entities, a, d)
    IN  [title |-> IF found.desc # ""
                   THEN intent \o "(" \o found.scope \o "): " \o found.desc
                   ELSE "",
         intent |-> intent,
         relations |-> relations,
         has_relations |-> TRUE,
         capabilities |-> capabilities,
         has_capabilities |-> TRUE,
         metrics |-> [lines_added |-> a,
                      lines_deleted |-> d,
                      old_complexity |-> found.old_complexity,
                      new_complexity |-> found.old_complexity + found.complexity_change,
                      value_score |-> found.value_score],
         body |-> FormatBody(unique, relations, a, d),
         added_entities |-> found.entities,
         files |-> unique,
         net_lines |-> "",
         categories |-> <<>>,
         applied_fixes |-> <<>>]

\* no summary yet
BlankSummary ==
    [title |-> "", intent |-> "", relations |-> <<>>, has_relations |-> FALSE,
     capabilities |-> <<>>, has_capabilities |-> FALSE,
     metrics |-> [lines_added |-> 0, lines_deleted |-> 0, old_complexity |-> 1,
                  new_complexity |-> 1, value_score |-> -1],
     body |-> "", added_entities |-> <<>>, files |-> <<>>,
     net_lines |-> "", categories |-> <<>>, applied_fixes |-> <<>>]

\* no finding of the analyzers
NoAnalysis ==
    [desc |-> "", scope |-> "", capabilities |-> <<>>, entities |-> <<>>,
     old_complexity |-> 1, complexity_change |-> 0, value_score |-> -1]

\* no validation result yet
NoValidation == [valid |-> TRUE, errors |-> <<>>, warnings |-> <<>>, score |-> -1]

\* no cli command is running
NoOptions ==
    [cmd |-> "none", message |-> "", ticket |-> "", yes |-> FALSE, split |-> FALSE,
     dry_run |-> FALSE, fix |-> FALSE, enhanced |-> FALSE, enabled |-> FALSE,
     release |-> FALSE, no_changelog |-> TRUE, preview |-> FALSE]

\* every value of the summary is a value of its type
\* a git repository in which the changes are staged
StagedRepository ==
    [in_repo |-> TRUE, has_files |-> TRUE, staged |-> TRUE, dirty |-> FALSE]

\* no file of the project is looked at
NoTree == [p \in {} |-> ""]

NoEnvironment ==
    /\ nulls = {}
    /\ diff_content = ""
    /\ world = StagedRepository
    /\ io = <<>>
    /\ tree = NoTree
    /\ new_version = ""

NoCommand ==
    /\ opts = NoOptions
    /\ analysis = NoAnalysis
    /\ commit_title = ""
    /\ commit_msg = ""
    /\ validation = NoValidation
    /\ suggested = BlankSummary
    /\ trace = <<>>
    /\ commits = <<>>

-----------------------------------------------------------------------------
(* Inputs of the intent classifier *)

IntentFiles ==
    {"README.md", "docs/guide.rst", "notes.rst", "setup.toml",
     "goal/cli.py", "deep_analyzer.py", "new_feature.py", "bugfix.py"}

\* a change of more than ten source files
ManyFiles ==
    <<"a1.py", "a2.py", "a3.py", "a4.py", "a5.py", "a6.py",
      "a7.py", "a8.py", "a9.py", "b1.py", "b2.py">>

IntentFileLists == ChangedLists(IntentFiles, MaxFiles) \cup {ManyFiles}
IntentEntities == {<<>>, <<"restructure_core", "fix_issue">>}
AddedValues == {0, 50, 1000, 5000}

\* no file content is looked at
NoContents == [f \in {} |-> [readable |-> FALSE, imports |-> <<>>]]
DeletedValues == {0, 99, 100, 150, 250, 900, 999, 1000}

InitIntent ==
    /\ NoCommand
    /\ NoEnvironment
    /\ pc = "input"
    /\ files \in IntentFileLists
    /\ entities \in IntentEntities
    /\ added \in AddedValues
    /\ deleted \in DeletedValues
    /\ out = [intent |-> "none"]
    /\ config = EmptyConfig
    /\ contents = NoContents
    /\ summary = BlankSummary

ClassifyIntent ==
    /\ pc = "input"
    /\ pc' = "classified"
    /\ out' = [intent |-> classify_intent_smart(files, entities, added, deleted)]
    /\ UNCHANGED envVars
    /\ UNCHANGED <<files, entities, added, deleted, config, contents, summary>>
    /\ UNCHANGED cliVars

NextIntent == ClassifyIntent

SpecIntent == InitIntent /\ [][NextIntent]_vars

-----------------------------------------------------------------------------
(* Inputs of the summary pipeline *)

\* the changed files of the generated summaries; core.md has the stem of
\* core.py
PipelineFiles == {"core.py", "cli.py", "api.py", "utils.py", "core.md"}

AllStems == <<"core", "cli", "api", "utils">>

\* what the changed files hold: imports of every module, repeated imports,
\* or nothing readable
ContentChoices ==
    {[f \in PipelineFiles |-> [readable |-> TRUE, imports |-> AllStems]],
     [f \in PipelineFiles |-> [readable |-> TRUE, imports |-> <<"core", "core", "utils">>]],
     [f \in PipelineFiles |-> [readable |-> FALSE, imports |-> <<>>]]}

\* what the analyzers found: descriptions generate_value_title returns
\* (src/goal/enhanced_summary.py 927, 951), a scope of detect_scope, ids of
\* detect_capabilities
Findings ==
    {[desc |-> dsc, scope |-> "goal",
      capabilities |-> <<"cli_interface", "ast_analysis", "deep_analyzer">>,
      entities |-> <<>>, old_complexity |-> 1, complexity_change |-> 0,
      value_score |-> 60] : dsc \in {"code analysis engine", "output formatting"}}

\* a summary that passes every gate for the file list <<"goal/cli.py">>
GoodSummary ==
    [title |-> "feat(goal): CLI interface improvements",
     intent |-> "feat",
     relations |-> <<>>, has_relations |-> TRUE,
     capabilities |-> <<"cli_interface">>, has_capabilities |-> TRUE,
     metrics |-> [lines_added |-> 50, lines_deleted |-> 2, old_complexity |-> 1,
                  new_complexity |-> 1, value_score |-> 60],
     body |-> "IMPACT: lines (NET) Framework score: /100",
     added_entities |-> <<>>, files |-> <<"goal/cli.py">>,
     net_lines |-> "", categories |-> <<>>, applied_fixes |-> <<>>]

Titles ==
    {"feat(core): update logging",
     "feat(core): code analysis engine",
     "fix(api): improve auth",
     "refactor: misc",
     "code improvements",
     "feat(goal): CLI interface improvements",
     "[ABC-1] feat(core): add stuff (wip)",
     "docs(): Various Changes",
     "feat(api:fix): sturdy login flow"}

TitleFiles ==
    {<<"goal/cli.py">>, <<"api.py">>, <<"deep_analyzer.py", "api.py">>,
     <<"git_ops.py">>, <<"README.md">>,
     <<"cli.py", "pkg/cli.py", "cli_main.py">>,
     <<"api.py", "pkg/api.py", "core.py", "cli.py", "io.py">>}

\* (added, deleted)
Churns == {<<50, 2>>, <<0, 1000>>, <<10, 300>>}

Rel(f, t) == [from |-> f, to |-> t, type |-> "imports"]

RawEdges ==
    {Rel("a", "b"), Rel("b", "a"), Rel("a", "base"), Rel("Utils", "b"),
     Rel("b", "common"), Rel("a", "a")}

\* twelve distinct edges between four modules
TwelveEdges ==
    <<Rel("a", "b"), Rel("a", "c"), Rel("a", "d"), Rel("b", "a"), Rel("b", "c"),
      Rel("b", "d"), Rel("c", "a"), Rel("c", "b"), Rel("c", "d"), Rel("d", "a"),
      Rel("d", "b"), Rel("d", "c")>>

RawRelLists ==
    BoundedSeq(RawEdges, MaxRelLen)
    \cup {SubSeq(TwelveEdges, 1, n) : n \in 9..12}
    \cup {<<Rel("a", "base"), Rel("utils", "a"), Rel("c", "c")>> \o TwelveEdges \o TwelveEdges}

FiveFiles == <<"a/x.py", "b/x.py", "c/x.py", "x.py", "y.py">>

Configs == {EmptyConfig, DefaultConfig}

\* summaries that differ in their title
TitleInputs ==
    {[cfg |-> c, fs |-> fs, churn |-> ch,
      sm |-> [GoodSummary EXCEPT !.title = t, !.intent = "",
                                 !.metrics.lines_added = ch[1],
                                 !.metrics.lines_deleted = ch[2]]] :
        c \in Configs, fs \in TitleFiles, ch \in Churns, t \in Titles}

\* summaries that differ in their relation list
RelationInputs ==
    {[cfg |-> EmptyConfig, fs |-> <<"goal/cli.py">>, churn |-> <<50, 2>>,
      sm |-> [GoodSummary EXCEPT !.relations = rels]] : rels \in RawRelLists}
    \cup {[cfg |-> EmptyConfig, fs |-> <<"goal/cli.py">>, churn |-> <<50, 2>>,
           sm |-> [GoodSummary EXCEPT !.has_relations = FALSE,
                                      !.has_capabilities = FALSE]]}

\* summaries in which the gates fail in every combination
GateInputs ==
    {[cfg |-> c, fs |-> fs, churn |-> <<50, d>>,
      sm |-> [GoodSummary EXCEPT
                !.title = t, !.relations = rels, !.capabilities = caps,
                !.body = body, !.metrics.lines_deleted = d,
                !.metrics.new_complexity = cc, !.metrics.value_score = vs]] :
        c \in Configs,
        fs \in {<<"goal/cli.py">>, FiveFiles},
        d \in {2, 300},
        t \in {"feat(goal): CLI interface improvements", "feat(core): misc"},
        rels \in {<<>>, <<Rel("a", "b"), Rel("a", "b"), Rel("a", "base"), Rel("utils", "b")>>},
        caps \in {<<>>, <<"changelog", "cli_interface">>},
        body \in {"", "Files: core=1", "IMPACT: lines (NET) Framework score: /100"},
        cc \in {1, 4},
        vs \in {-1, 40}}

\* summaries that differ in their capability list
CapabilityInputs ==
    {[cfg |-> EmptyConfig, fs |-> <<"goal/cli.py">>, churn |-> <<50, 2>>,
      sm |-> [GoodSummary EXCEPT !.capabilities = caps]] :
        caps \in {<<"deep_analyzer", "ast_analysis">>,
                  <<"changelog", "ast_analysis", "cli_interface", "deep_analyzer">>,
                  <<"logging", "changelog", "tracing">>}}

SummaryInputs == TitleInputs \cup RelationInputs \cup GateInputs \cup CapabilityInputs

\* either a change set from which a summary is still to be generated, or a
\* summary handed to the validator as it is
InitSummary ==
    /\ NoCommand
    /\ NoEnvironment
    /\ entities = <<>>
    /\ out = <<>>
    /\ \/ /\ pc = "changes"
          /\ files \in ChangedLists(PipelineFiles, MaxChanged)
          /\ contents \in ContentChoices
          /\ added = 50
          /\ deleted = 2
          /\ config = EmptyConfig
          /\ summary = BlankSummary
       \/ /\ pc = "summary"
          /\ \E i \in SummaryInputs :
                /\ files = i.fs
                /\ added = i.churn[1]
                /\ deleted = i.churn[2]
                /\ config = i.cfg
                /\ summary = i.sm
          /\ contents = NoContents

\* CommitMessageGenerator.generate_enhanced_summary
Generate ==
    /\ pc = "changes"
    /\ \E found \in Findings :
          summary' = generate_enhanced_summary(files, contents, found, added, deleted)
    /\ pc' = "generated"
    /\ UNCHANGED envVars
    /\ UNCHANGED <<files, entities, added, deleted, config, contents, out>>
    /\ UNCHANGED cliVars

\* validator.validate(summary, files)
Validate ==
    /\ pc \in {"summary", "generated", "fixed"}
    /\ out' = validate(config, summary, files)
    /\ pc' = IF pc = "fixed" THEN "revalidated" ELSE "validated"
    /\ UNCHANGED envVars
    /\ UNCHANGED <<files, entities, added, deleted, config, contents, summary>>
    /\ UNCHANGED cliVars

\* validator.auto_fix(summary, files, added, deleted), on a summary as it
\* comes or on the result of a first call; out keeps the summary that was
\* handed in
AutoFix ==
    /\ pc \in {"summary", "generated", "validated", "fixed"}
    /\ summary' = auto_fix(config, summary, files, added, deleted)
    /\ out' = [arg |-> summary]
    /\ pc' = IF pc = "fixed" THEN "refixed" ELSE "fixed"
    /\ UNCHANGED envVars
    /\ UNCHANGED <<files, entities, added, deleted, config, contents>>
    /\ UNCHANGED cliVars

\* dedupe_relations applied to the relation list, then to its own result
DedupeRelations ==
    /\ \/ /\ pc \in {"summary", "generated"}
          /\ out' = [list |-> dedupe_relations(summary.relations),
                     arg |-> summary.relations]
          /\ pc' = "relations_deduped"
       \/ /\ pc = "relations_deduped"
          /\ out' = [list |-> dedupe_relations(out.list), arg |-> out.list]
          /\ pc' = "relations_deduped_twice"
    /\ UNCHANGED envVars
    /\ UNCHANGED <<files, entities, added, deleted, config, contents, summary>>
    /\ UNCHANGED cliVars

\* dedupe_files applied to the file list, then to its own result
DedupeFiles ==
    /\ \/ /\ pc \in {"summary", "generated"}
          /\ out' = [list |-> dedupe_files(files), arg |-> files]
          /\ pc' = "files_deduped"
       \/ /\ pc = "files_deduped"
          /\ out' = [list |-> dedupe_files(out.list), arg |-> out.list]
          /\ pc' = "files_deduped_twice"
    /\ UNCHANGED envVars
    /\ UNCHANGED <<files, entities, added, deleted, config, contents, summary>>
    /\ UNCHANGED cliVars

-----------------------------------------------------------------------------
(* Relation chains *)

\* the characters of a module name (\w), in code-point order
WordChars == "0123456789ABCDEFGHIJKLMNOPQRSTUVWXYZ_abcdefghijklmnopqrstuvwxyz"

Ord(c) == CHOOSE i \in 1..Len(WordChars) : Char(WordChars, i) = c

RECURSIVE StrLess(_, _)
\* s < t of two str
StrLess(s, t) ==
    IF t = "" THEN FALSE
    ELSE IF s = "" THEN TRUE
    ELSE IF Char(s, 1) = Char(t, 1) THEN StrLess(Tail(s), Tail(t))
    ELSE Ord(Char(s, 1)) < Ord(Char(t, 1))

\* sorted(S)[0]
FirstSorted(S) == CHOOSE s \in S : \A t \in S : s = t \/ StrLess(s, t)

\* adj[current]
Adjacent(relations, current) ==
    {relations[i].to : i \in {k \in 1..Len(relations) : relations[k].from = current}}

\* the roots of _build_relation_chain: the sources nothing imports, or every
\* source when there is none
Roots(relations) ==
    LET all_targets == {relations[i].to : i \in 1..Len(relations)}
        all_sources == {relations[i].from : i \in 1..Len(relations)}
    IN  IF all_sources \ all_targets = {} THEN all_sources
        ELSE all_sources \ all_targets

RECURSIVE WalkChain(_, _, _, _)
\* the while loop of _build_relation_chain: follow the first unvisited
\* successor in sorted order
WalkChain(relations, current, visited, chain) ==
    IF Adjacent(relations, current) \ visited = {} THEN chain
    ELSE LET next_node == FirstSorted(Adjacent(relations, current) \ visited)
         IN  WalkChain(relations, next_node, visited \cup {next_node},
                       Append(chain, next_node))

\* the orders in which `for root in roots` can visit the set roots: the
\* iteration order of a set of str follows the hashes of its members, which
\* differ from one interpreter to the next
IterationOrders(S) ==
    {o \in [1..Cardinality(S) -> S] : \A i, j \in 1..Cardinality(S) : o[i] = o[j] => i = j}

\* the chain string built when the roots are visited in the given order;
\* "->" stands for the arrow U+2192 the code joins the nodes with
ChainOf(relations, order) ==
    Join([k \in 1..Len(order) |->
            Join(WalkChain(relations, order[k], {order[k]}, <<order[k]>>), "->")],
         ", ")

\* _build_relation_chain: the strings it can return
build_relation_chain(relations) ==
    IF relations = <<>> THEN {""}
    ELSE {ChainOf(relations, o) : o \in IterationOrders(Roots(relations))}

\* a change set of which the relations are to be detected
InitRelations ==
    /\ NoCommand
    /\ NoEnvironment
    /\ pc = "changes"
    /\ files \in ChangedLists(PipelineFiles, MaxChained)
    /\ contents \in ContentChoices
    /\ entities = <<>>
    /\ added = 50
    /\ deleted = 2
    /\ config = EmptyConfig
    /\ summary = BlankSummary
    /\ out = <<>>

\* detect_file_relations(files): one call; out collects the results of the
\* calls made on the same change set
DetectRelations ==
    /\ pc \in {"changes", "detected"}
    /\ Len(out) < 2
    /\ \E chain \in build_relation_chain(detect_file_relations(files, contents)) :
          out' = Append(out, [relations |-> detect_file_relations(files, contents),
                              chain |-> chain])
    /\ pc' = "detected"
    /\ UNCHANGED envVars
    /\ UNCHANGED <<files, entities, added, deleted, config, contents, summary>>
    /\ UNCHANGED cliVars

NextRelations == DetectRelations

SpecRelations == InitRelations /\ [][NextRelations]_vars

-----------------------------------------------------------------------------

NextSummary == Generate \/ Validate \/ AutoFix \/ DedupeRelations \/ DedupeFiles

SpecSummary == InitSummary /\ [][NextSummary]_vars

-----------------------------------------------------------------------------
(* Properties of the intent classifier *)

\* C1: whenever lines deleted >= 1000, the classified intent is 'refactor',
\* whatever the file list, the entity names and the keyword scores are.
C1_ChurnForcesRefactor ==
    (pc = "classified" /\ deleted >= 1000) => out.intent = "refactor"

\* a docs-only change with 1000 deleted lines was classified as refactor
C1_Witness ==
    /\ pc = "classified"
    /\ deleted >= 1000
    /\ files # <<>>
    /\ \A i \in 1..Len(files) : EndsWith(files[i], ".md")
    /\ out.intent = "refactor"

\* every file ends in .md or .rst, or its path contains "doc"
C2_DocsOnlyAsStated ==
    \A i \in 1..Len(files) :
        \/ EndsWith(files[i], ".md")
        \/ EndsWith(files[i], ".rst")
        \/ Contains(files[i], "doc")

\* C2 as stated: the docs-only rule comes first, so a docs-only file list
\* (.md, .rst or "doc" in the path) is always classified 'docs'.
C2_DocsRuleFirst ==
    (pc = "classified" /\ C2_DocsOnlyAsStated) => out.intent = "docs"

\* every file ends in .md or has "doc" in its lower-cased path
C2_DocsOnlyInCode ==
    \A i \in 1..Len(files) :
        EndsWith(files[i], ".md") \/ Contains(Lower(files[i]), "doc")

\* none of the three churn tests applies
C2_NoChurnSignal ==
    /\ deleted < 1000
    /\ ~(deleted >= 250 /\ 100 * deleted >= 20 * (added + deleted))
    /\ added - deleted >= -100

\* C2 (amended): the churn tests are tried first; when none of them applies
\* and every file ends in .md or has "doc" in its path, the intent is 'docs'
\* whatever the keyword scores are.
C2_DocsRuleAfterChurn ==
    (pc = "classified" /\ C2_NoChurnSignal /\ C2_DocsOnlyInCode)
        => out.intent = "docs"

\* a docs-only change whose entity names score for refactor and fix was
\* classified as docs
C2_Witness ==
    /\ pc = "classified"
    /\ C2_NoChurnSignal
    /\ C2_DocsOnlyInCode
    /\ files # <<>>
    /\ entities # <<>>
    /\ deleted >= 100
    /\ out.intent = "docs"

\* the three keyword scores of the input, the bonus for many files included
C21_RefactorScore ==
    PatternScore(REFACTOR_PATTERNS, Lower(Combined(files, entities)))
        + (IF Len(files) > 10 /\ added - deleted < 0 THEN 3 ELSE 0)

C21_FeatScore == PatternScore(FEAT_PATTERNS, Lower(Combined(files, entities)))

C21_FixScore == PatternScore(FIX_PATTERNS, Lower(Combined(files, entities)))

\* neither docs-only nor config-only, no churn test applies, 100 lines or
\* more are deleted and the refactor score is at least tied
C21_RefactorPreferred ==
    /\ pc = "classified"
    /\ ~(\A i \in 1..Len(files) :
            EndsWith(files[i], ".md") \/ Contains(Lower(files[i]), "doc"))
    /\ ~(\A i \in 1..Len(files) :
            \E e \in {".yaml", ".toml", ".json", ".ini"} : EndsWith(files[i], e))
    /\ C2_NoChurnSignal
    /\ deleted >= 100
    /\ C21_RefactorScore >= C21_FeatScore
    /\ C21_RefactorScore >= C21_FixScore

\* C21 as stated: when no earlier rule (docs-only, config-only, strong
\* refactor signal) applies, deleted >= 100 and the refactor score is at
\* least as high as the feat and the fix score, the intent is 'refactor',
\* for any values of the three scores.
C21_AnyScores ==
    C21_RefactorPreferred => out.intent = "refactor"

\* C21 as it holds: the same, for scores that are not all zero; with three
\* zero scores the intent is 'refactor' when added <= deleted and 'feat'
\* otherwise.
C21_ScoresNotAllZero ==
    C21_RefactorPreferred =>
        out.intent = (IF C21_RefactorScore = 0 /\ added > deleted THEN "feat" ELSE "refactor")

\* three refactor keywords against three fix keywords, 100 lines deleted
\* and 1000 added: classified as refactor
C21_Witness ==
    /\ C21_RefactorPreferred
    /\ C21_RefactorScore = 3
    /\ C21_FixScore = 3
    /\ added = 1000
    /\ deleted = 100
    /\ out.intent = "refactor"

\* no keyword at all, 100 lines deleted and 1000 added: classified as feat
C21_ZeroScoresFeat ==
    /\ C21_RefactorPreferred
    /\ C21_RefactorScore = 0
    /\ added = 1000
    /\ deleted = 100
    /\ out.intent = "feat"

\* the second or the third churn test applies
C20_RatioOrNetSignal ==
    \/ (deleted >= 250 /\ added + deleted > 0 /\ 100 * deleted >= 20 * (added + deleted))
    \/ added - deleted < -100

\* C20: for a file list that is neither docs-only nor config-only, the
\* intent is 'refactor' whenever deleted >= 250 with deletions at least 20%
\* of the churn, or added - deleted < -100, whatever the keywords in the
\* file and entity names are.
C20_ChurnBeatsKeywords ==
    (/\ pc = "classified"
     /\ ~(\A i \in 1..Len(files) :
            EndsWith(files[i], ".md") \/ Contains(Lower(files[i]), "doc"))
     /\ ~(\A i \in 1..Len(files) :
            \E e \in {".yaml", ".toml", ".json", ".ini"} : EndsWith(files[i], e))
     /\ C20_RatioOrNetSignal)
        => out.intent = "refactor"

\* source files named for a feature and a fix, entities named for a fix,
\* 50 lines added and 900 deleted: classified as refactor
C20_Witness ==
    /\ pc = "classified"
    /\ files = <<"new_feature.py", "bugfix.py">>
    /\ entities = <<"restructure_core", "fix_issue">>
    /\ added = 50
    /\ deleted = 900
    /\ out.intent = "refactor"

\* a feature file with 150 deleted lines and none added: the net reduction
\* alone makes it a refactor
C20_NetReductionAlone ==
    /\ pc = "classified"
    /\ files = <<"new_feature.py">>
    /\ entities = <<>>
    /\ added = 0
    /\ deleted = 150
    /\ out.intent = "refactor"

-----------------------------------------------------------------------------
(* git_ops: ensure_git_repository *)

RECURSIVE RStrip(_)
RStrip(s) ==
    IF s # "" /\ Char(s, Len(s)) = " " THEN RStrip(SubSeq(s, 1, Len(s) - 1)) ELSE s

\* str.strip() of a string whose only whitespace is the space
Strip(s) == RStrip(LStrip(s))

\* [\w.\-]+ matches the whole of s
IsHost(s) ==
    s # "" /\ \A i \in 1..Len(s) : IsWordChar(Char(s, i)) \/ Char(s, i) \in {".", "-"}

\* [\w.\-/]+ matches the whole of s; the optional (?:\.git)? that follows it
\* in both patterns is made of characters of the class
IsRepoPath(s) ==
    s # "" /\ \A i \in 1..Len(s) : IsWordChar(Char(s, i)) \/ Char(s, i) \in {".", "-", "/"}

\* ^prefix[\w.\-]+sep[\w.\-/]+(?:\.git)?$ : the host runs to the first sep
MatchesRepoUrl(url, prefix, sep) ==
    /\ StartsWith(url, prefix)
    /\ LET rest == SubSeq(url, Len(prefix) + 1, Len(url))
           i == FirstIndexFrom(rest, sep, 1)
       IN  /\ i # 0
           /\ IsHost(SubSeq(rest, 1, i - 1))
           /\ IsRepoPath(SubSeq(rest, i + 1, Len(rest)))

\* validate_repo_url
validate_repo_url(url) ==
    \/ MatchesRepoUrl(Strip(url), "git@", ":")
    \/ MatchesRepoUrl(Strip(url), "http://", "/")
    \/ MatchesRepoUrl(Strip(url), "https://", "/")

\* _prompt_remote_url for the answer typed: "" stands for None
prompt_remote_url(answer) ==
    IF Strip(answer) = "" THEN ""
    ELSE IF ~validate_repo_url(Strip(answer)) THEN ""
    ELSE Strip(answer)

\* what the user can type at the URL prompt
UrlAnswers ==
    {"", "not-a-url", " https://github.com/user/repo.git ",
     "git@github.com:user/repo.git", "https://github.com"}

\* the answer to a click.prompt
Prompt(name, answer) == [kind |-> "prompt", name |-> name, answer |-> answer, ok |-> TRUE]

\* a git command (or the chdir into the clone) and whether it succeeded
Git(cmd, ok) == [kind |-> "git", name |-> cmd, answer |-> "", ok |-> ok]

\* the git commands that change the repository or the remote
MutatingCommands == {"init", "remote add", "fetch", "add", "commit", "merge",
                     "checkout", "clone", "tag", "push"}

\* the --all mode of ensure_git_repository(auto=...): push passes --yes
auto == opts.yes

\* return value
Return(value) == [ret |-> value]

\* lines 201-212: already in a repository; or no prompt in auto mode
EnsureCheck ==
    /\ pc = "ensure"
    /\ IF world.in_repo
       THEN out' = Return(TRUE) /\ pc' = "ensured"
       ELSE IF auto
       THEN out' = Return(FALSE) /\ pc' = "ensured"
       ELSE out' = out /\ pc' = "git:action"
    /\ UNCHANGED <<nulls, diff_content, world, io, tree, new_version>>
    /\ UNCHANGED <<files, entities, added, deleted, config, contents, summary>>
    /\ UNCHANGED cliVars

\* lines 218-228 and 332-334: the menu; option 4 is Exit
EnsureChoose ==
    /\ pc = "git:action"
    /\ \E action \in 1..4 :
          /\ io' = Append(io, Prompt("action", ToString(action)))
          /\ IF action = 4
             THEN out' = Return(FALSE) /\ pc' = "ensured"
             ELSE /\ out' = out
                  /\ pc' = CASE action = 1 -> "git:init-remote"
                             [] action = 2 -> "git:clone-url"
                             [] action = 3 -> "git:init-local"
    /\ UNCHANGED <<nulls, diff_content, world, tree, new_version>>
    /\ UNCHANGED <<files, entities, added, deleted, config, contents, summary>>
    /\ UNCHANGED cliVars

\* lines 231-236 (option 1) and 323-330 (option 3): git init
EnsureInit ==
    /\ pc \in {"git:init-remote", "git:init-local"}
    /\ \E ok \in BOOLEAN :
          /\ io' = Append(io, Git("init", ok))
          /\ world' = [world EXCEPT !.in_repo = ok, !.dirty = ok /\ world.has_files]
          /\ IF ~ok
             THEN out' = Return(FALSE) /\ pc' = "ensured"
             ELSE IF pc = "git:init-local"
             THEN out' = Return(TRUE) /\ pc' = "ensured"
             ELSE out' = out /\ pc' = "git:remote-url"
    /\ UNCHANGED <<nulls, diff_content, tree, new_version>>
    /\ UNCHANGED <<files, entities, added, deleted, config, contents, summary>>
    /\ UNCHANGED cliVars

\* lines 238-239 (option 1) and 308-310 (option 2): the URL prompt
EnsureUrl ==
    /\ pc \in {"git:remote-url", "git:clone-url"}
    /\ \E answer \in UrlAnswers :
          /\ io' = Append(io, Prompt("url", answer))
          /\ IF prompt_remote_url(answer) # ""
             THEN /\ out' = [url |-> prompt_remote_url(answer)]
                  /\ pc' = IF pc = "git:remote-url" THEN "git:remote" ELSE "git:clone"
             ELSE /\ out' = Return(pc = "git:remote-url")
                  /\ pc' = "ensured"
    /\ UNCHANGED <<nulls, diff_content, world, tree, new_version>>
    /\ UNCHANGED <<files, entities, added, deleted, config, contents, summary>>
    /\ UNCHANGED cliVars

\* lines 240-251 and 294-300: add the remote, fetch it and list its branches
EnsureRemote ==
    /\ pc = "git:remote"
    /\ \E added_ok \in BOOLEAN, fetched \in BOOLEAN, branches \in 0..MaxBranches :
          /\ ~fetched => branches = 0
          /\ io' = io \o <<Git("remote add", added_ok), Git("fetch", fetched)>>
                      \o (IF fetched THEN <<Git("ls-remote", TRUE)>> ELSE <<>>)
          /\ IF fetched /\ branches > 0
             THEN out' = [branches |-> branches] /\ pc' = "git:merge"
             ELSE out' = Return(TRUE) /\ pc' = "ensured"
    /\ UNCHANGED <<nulls, diff_content, world, tree, new_version>>
    /\ UNCHANGED <<files, entities, added, deleted, config, contents, summary>>
    /\ UNCHANGED cliVars

\* lines 256-293: how to combine local and remote files
EnsureMerge ==
    /\ pc = "git:merge"
    /\ \E merge_action \in 1..4, ok \in BOOLEAN :
          /\ io' = io \o <<Prompt("merge", ToString(merge_action))>>
                      \o (IF merge_action \in {2, 3} /\ out.branches > 1
                          THEN <<Prompt("branch", "1")>> ELSE <<>>)
                      \o (IF merge_action = 2 /\ world.has_files
                          THEN <<Git("add", TRUE), Git("commit", TRUE)>> ELSE <<>>)
                      \o (IF merge_action = 2 THEN <<Git("merge", ok)>>
                          ELSE IF merge_action = 3 THEN <<Git("checkout", ok)>>
                          ELSE <<>>)
          /\ merge_action \in {1, 4} => ok
          /\ world' = IF merge_action = 2 /\ world.has_files
                      THEN [world EXCEPT !.dirty = FALSE, !.staged = FALSE]
                      ELSE world
    /\ out' = Return(TRUE)
    /\ pc' = "ensured"
    /\ UNCHANGED <<nulls, diff_content, tree, new_version>>
    /\ UNCHANGED <<files, entities, added, deleted, config, contents, summary>>
    /\ UNCHANGED cliVars

\* lines 312-320: clone_repository(url) and os.chdir into the clone
EnsureClone ==
    /\ pc = "git:clone"
    /\ \E ok \in BOOLEAN :
          /\ io' = io \o <<Git("clone", ok)>>
                      \o (IF ok THEN <<Git("chdir", TRUE)>> ELSE <<>>)
          /\ world' = IF ok
                      THEN [in_repo |-> TRUE, has_files |-> TRUE,
                            staged |-> FALSE, dirty |-> FALSE]
                      ELSE world
          /\ out' = Return(ok)
    /\ pc' = "ensured"
    /\ UNCHANGED <<nulls, diff_content, tree, new_version>>
    /\ UNCHANGED <<files, entities, added, deleted, config, contents, summary>>
    /\ UNCHANGED cliVars

\* a directory, a repository or not, in which ensure_git_repository is called
Directories ==
    {[in_repo |-> r, has_files |-> h, staged |-> FALSE, dirty |-> r /\ h] :
        r \in BOOLEAN, h \in BOOLEAN}

InitGit ==
    /\ opts \in {[NoOptions EXCEPT !.cmd = "ensure", !.yes = a] : a \in BOOLEAN}
    /\ analysis = NoAnalysis
    /\ commit_title = ""
    /\ commit_msg = ""
    /\ validation = NoValidation
    /\ suggested = BlankSummary
    /\ trace = <<>>
    /\ commits = <<>>
    /\ nulls = {}
    /\ diff_content = ""
    /\ world \in Directories
    /\ io = <<>>
    /\ tree = NoTree
    /\ new_version = ""
    /\ pc = "ensure"
    /\ files = <<"api.py">>
    /\ entities = <<>>
    /\ added = 0
    /\ deleted = 0
    /\ config = EmptyConfig
    /\ contents = NoContents
    /\ summary = BlankSummary
    /\ out = <<>>

NextGit ==
    \/ EnsureCheck
    \/ EnsureChoose
    \/ EnsureInit
    \/ EnsureUrl
    \/ EnsureRemote
    \/ EnsureMerge
    \/ EnsureClone

SpecGit == InitGit /\ [][NextGit]_vars

-----------------------------------------------------------------------------
(* cli: goal push and goal validate *)

\* apply_ticket_prefix with no TICKET file: the default format
apply_ticket_prefix(title, ticket) ==
    IF ticket = "" THEN title ELSE "[" \o ticket \o "] " \o title

GroupOrder == <<"code", "docs", "ci", "examples", "other">>

\* the group split_paths_by_type puts path p in
GroupOf(p) ==
    LET pl == Lower(p)
    IN  IF StartsWith(pl, "examples/") THEN "examples"
        ELSE IF \/ StartsWith(pl, "docs/")
                \/ EndsWith(pl, ".md") \/ EndsWith(pl, ".rst")
                \/ PathName(pl) = "readme.md"
             THEN "docs"
        ELSE IF \/ StartsWith(pl, ".github/") \/ StartsWith(pl, ".gitlab/")
                \/ EndsWith(pl, ".yml") \/ EndsWith(pl, ".yaml")
             THEN "ci"
        ELSE IF \/ StartsWith(pl, "goal/") \/ StartsWith(pl, "src/")
                \/ StartsWith(pl, "lib/") \/ EndsWith(pl, ".py")
             THEN "code"
        ELSE "other"

\* split_paths_by_type: the paths of one group, in the order given
GroupPaths(paths, g) ==
    LET InGroup(p) == GroupOf(p) = g
    IN  SelectSeq(paths, InGroup)

\* the names of the non-empty groups, in the order push commits them
split_paths_by_type(paths) ==
    LET Present(g) == GroupPaths(paths, g) # <<>>
    IN  SelectSeq(GroupOrder, Present)

\* the quality gate of push runs for a generated enhanced message when the
\* enhanced summary is enabled
GateApplies == opts.message = "" /\ opts.enhanced /\ opts.enabled

\* summary_for_validation: detailed_result with the commit message as title
SummaryForValidation(title) == [summary EXCEPT !.title = title]

\* detailed_result.get('files') or files
ValidatedFiles == IF summary.files # <<>> THEN summary.files ELSE files

\* the staged files of a run
PushFileLists ==
    {<<"goal/formatter.py">>, <<"api.py">>, <<"goal/cli.py", "README.md">>,
     <<"api.py", "docs/guide.md", ".github/ci.yml">>}

PushContents ==
    [f \in {"goal/formatter.py", "goal/cli.py", "api.py", "README.md",
             "docs/guide.md", ".github/ci.yml"}
        |-> [readable |-> FALSE, imports |-> <<>>]]

\* (added, deleted) of every staged file
FileStats == {<<25, 1>>, <<5, 150>>}

\* what the analyzers found: the description generate_value_title returns
\* with the capabilities it returns it for (the CLI title of line 943, the
\* name of the only capability of line 951, the fallback of line 954), the
\* scope, and the title of the plain generator
PushFindings ==
    {[desc |-> f[1], scope |-> "goal", capabilities |-> f[2],
      entities |-> <<>>, old_complexity |-> 1, complexity_change |-> 0,
      value_score |-> 60, plain |-> "chore(goal): update cli", per_file |-> st] :
        f \in {<<"CLI interface improvements", <<"cli_interface">> >>,
                <<"output formatting", <<"output_formatting">> >>,
                <<"code improvements", <<>> >>},
        st \in FileStats}

\* (release, no_changelog): release is (not no_version_sync) or (not
\* no_changelog), so that --no-changelog is given whenever release is false
ReleaseFlags == {<<FALSE, TRUE>>, <<TRUE, FALSE>>, <<TRUE, TRUE>>}

PushOptions ==
    {[cmd |-> "push", message |-> "", ticket |-> t, yes |-> y, split |-> sp,
      dry_run |-> dr, fix |-> FALSE, enhanced |-> TRUE, enabled |-> en,
      release |-> rel[1], no_changelog |-> rel[2]] :
        t \in {"", "ABC-1"}, y \in BOOLEAN, sp \in BOOLEAN, dr \in BOOLEAN,
        en \in BOOLEAN, rel \in ReleaseFlags}
    \cup
    {[cmd |-> "push", message |-> m, ticket |-> "", yes |-> y, split |-> sp,
      dry_run |-> dr, fix |-> FALSE, enhanced |-> m # "", enabled |-> TRUE,
      release |-> TRUE, no_changelog |-> FALSE] :
        m \in {"", "wip: stuff"}, y \in BOOLEAN, sp \in BOOLEAN, dr \in BOOLEAN}

ValidateOptions ==
    {[NoOptions EXCEPT !.cmd = "validate", !.fix = f] : f \in BOOLEAN}

FixSummaryOptions ==
    {[NoOptions EXCEPT !.cmd = "fix-summary", !.preview = p] : p \in BOOLEAN}

\* the calls of the validator, as the run makes them
ValidateCall(title, valid) == [call |-> "validate", title |-> title, valid |-> valid]
AutoFixCall(title) == [call |-> "auto_fix", title |-> title, valid |-> FALSE]

\* validate returned valid for this title in this run
ReturnedValid(title) ==
    \E i \in 1..Len(trace) :
        trace[i].call = "validate" /\ trace[i].title = title /\ trace[i].valid

\* the commit of one `git commit -m title`: whether the title was generated,
\* whether the validator returned valid for this very title, and whether the
\* user answered the "Commit changes?" prompt
Commit(group, title, generated) ==
    [group |-> group, title |-> title, generated |-> generated,
     validated |-> ReturnedValid(title), confirmed |-> ~opts.yes]

\* categorize_file: the line of the changelog for a changed file, "" for None
categorize_file(filename) ==
    LET basename == PathName(filename)
    IN  IF basename \in {"CHANGELOG.md", "VERSION"} THEN ""
        ELSE IF basename = "Makefile" THEN "build: update Makefile"
        ELSE IF basename = "package.json" THEN "deps: update package.json"
        ELSE IF basename \in {"Dockerfile", "docker-compose.yml"}
             THEN "docker: update " \o basename
        ELSE IF basename = "README.md" THEN "docs: update README"
        ELSE IF EndsWith(filename, ".md") THEN "docs: update " \o basename
        ELSE IF EndsWith(filename, ".py") THEN "update " \o filename
        ELSE IF \E x \in {".js", ".ts", ".tsx", ".jsx"} : EndsWith(filename, x)
             THEN "update " \o filename
        ELSE IF \E x \in {".yml", ".yaml"} : EndsWith(filename, x)
             THEN "config: update " \o basename
        ELSE IF EndsWith(filename, ".sh") THEN "scripts: update " \o basename
        ELSE "update " \o filename

\* datetime.now().strftime('%Y-%m-%d') on the day of the run
Today == "2024-06-01"

\* the most changes update_changelog lists
MaxChanges == 20

RECURSIVE ChangeLines(_)
\* "- {change}\n" for every change
ChangeLines(changes) ==
    IF changes = <<>> THEN ""
    ELSE "- " \o Head(changes) \o "\n" \o ChangeLines(Tail(changes))

\* update_changelog without domain grouping (git.changelog.group_by_domain is
\* not set): the new entry is written in front of the content CHANGELOG.md
\* had, or of nothing when there was no such file
update_changelog(tr, version, fs, msg) ==
    LET existing_content ==
            IF <<"CHANGELOG.md">> \in DOMAIN tr THEN tr[<<"CHANGELOG.md">>] ELSE ""
        described == [k \in 1..Len(fs) |->
                        IF fs[k] = "" THEN "" ELSE categorize_file(fs[k])]
        changes == SelectSeq(described, LAMBDA c : c # "")
        new_entry ==
            "## [" \o version \o "] - " \o Today \o "\n\n"
            \o "### Summary\n\n" \o msg \o "\n\n"
            \o (IF changes # <<>>
                THEN "### Changes\n\n"
                     \o ChangeLines(SubSeq(changes, 1, Min(Len(changes), MaxChanges)))
                     \o (IF Len(changes) > MaxChanges
                         THEN "- ... and " \o ToString(Len(changes) - MaxChanges)
                                \o " more changes\n"
                         ELSE "")
                ELSE "")
            \o "\n"
    IN  [p \in DOMAIN tr \cup {<<"CHANGELOG.md">>} |->
            IF p = <<"CHANGELOG.md">> THEN new_entry \o existing_content ELSE tr[p]]

\* Path('VERSION').write_text(new_version + '\n'), which is all that
\* sync_all_versions does too in a project without a manifest, a README.md
\* badge or an __init__.py
WriteVersion(tr, v) ==
    [p \in DOMAIN tr \cup {<<"VERSION">>} |->
        IF p = <<"VERSION">> THEN v \o "\n" ELSE tr[p]]

\* bump_version(get_current_version(), bump) of the run: a patch release of
\* a project at 1.0.0
BumpedVersion == "1.0.1"

\* the files of a project released once, as far as push reads or writes them
ReleasedTree ==
    [p \in {<<"VERSION">>, <<"CHANGELOG.md">>} |->
        IF p = <<"VERSION">> THEN "1.0.0\n"
        ELSE "## [1.0.0] - 2024-05-01\n\n### Summary\n\nfeat(core): first release\n\n\n"]

\* push, lines 1587-1634: leave when ensure_git_repository returned False;
\* stage every change unless this is a dry run; leave when nothing is staged
PushStart ==
    /\ pc = "ensured"
    /\ opts.cmd = "push"
    /\ io' = IF out.ret /\ ~opts.dry_run THEN Append(io, Git("add", TRUE)) ELSE io
    /\ world' = IF out.ret /\ ~opts.dry_run
                THEN [world EXCEPT !.staged = world.staged \/ world.dirty,
                                   !.dirty = FALSE]
                ELSE world
    /\ pc' = IF ~out.ret THEN (IF opts.yes THEN "returned" ELSE "exit1")
             ELSE IF ~world'.staged THEN "returned"
             ELSE "push"
    /\ out' = <<>>
    /\ UNCHANGED <<nulls, diff_content, tree, new_version>>
    /\ UNCHANGED <<files, entities, added, deleted, config, contents, summary>>
    /\ UNCHANGED cliVars

\* push, lines 1636-1680: the commit title is the message given, else the
\* title of generate_detailed_message
PushGenerate ==
    /\ pc = "push"
    /\ summary' = IF opts.message = "" /\ opts.enhanced
                  THEN generate_enhanced_summary(files, contents, analysis, added, deleted)
                  ELSE summary
    /\ commit_title' = apply_ticket_prefix(
                           IF opts.message # "" THEN opts.message
                           ELSE IF opts.enhanced THEN summary'.title
                           ELSE analysis.plain,
                           opts.ticket)
    /\ commit_msg' = commit_title'
    /\ pc' = "gate"
    /\ UNCHANGED envVars
    /\ UNCHANGED <<files, entities, added, deleted, config, contents, out, opts,
                   analysis, validation, suggested, trace, commits>>

\* push, lines 1693-1700: no gate for a message given with -m, for a message
\* that is not an enhanced one, and when the enhanced summary is disabled
PushSkipGate ==
    /\ pc = "gate"
    /\ ~GateApplies
    /\ pc' = "gate_passed"
    /\ UNCHANGED envVars
    /\ UNCHANGED <<files, entities, added, deleted, config, contents, summary, out>>
    /\ UNCHANGED cliVars

\* push, lines 1706-1718: validate the commit message about to be used
PushValidate ==
    /\ pc = "gate"
    /\ GateApplies
    /\ validation' = validate(config, SummaryForValidation(commit_msg), ValidatedFiles)
    /\ trace' = Append(trace, ValidateCall(commit_msg, validation'.valid))
    /\ pc' = IF validation'.valid THEN "gate_passed" ELSE "invalid"
    /\ UNCHANGED envVars
    /\ UNCHANGED <<files, entities, added, deleted, config, contents, summary, out,
                   opts, analysis, commit_title, commit_msg, suggested, commits>>

\* suggested_title and suggested_title.strip() and suggested_title != commit_msg
UsableTitle(title, current) == title # "" /\ LStrip(title) # "" /\ title # current

\* push, lines 1718-1722 and 1775-1804: auto_fix of the invalid message; a
\* title it did not change, or an empty one, ends the run
PushAutoFix ==
    /\ pc = "invalid"
    /\ suggested' = auto_fix(config, SummaryForValidation(commit_msg), files, added, deleted)
    /\ pc' = IF ~UsableTitle(suggested'.title, commit_msg) THEN "exit1"
             ELSE IF opts.yes THEN "apply_fix"
             ELSE "confirm_fix"
    /\ trace' = Append(trace, AutoFixCall(commit_msg))
    /\ UNCHANGED envVars
    /\ UNCHANGED <<files, entities, added, deleted, config, contents, summary, out,
                   opts, analysis, commit_title, commit_msg, validation, commits>>

\* the re-validation of PushRevalidate, sending a title that fails again
\* back to auto_fix
PushRevalidateRetry ==
    /\ pc = "apply_fix"
    /\ commit_msg' = suggested.title
    /\ validation' = validate(config, SummaryForValidation(suggested.title), ValidatedFiles)
    /\ trace' = Append(trace, ValidateCall(suggested.title, validation'.valid))
    /\ commit_title' = IF validation'.valid THEN suggested.title ELSE commit_title
    /\ pc' = IF validation'.valid THEN "gate_passed" ELSE "invalid"
    /\ UNCHANGED envVars
    /\ UNCHANGED <<files, entities, added, deleted, config, contents, summary, out,
                   opts, analysis, suggested, commits>>

\* push, lines 1723-1730 and 1764-1773: "Apply suggested title?"
PushConfirmFix ==
    /\ pc = "confirm_fix"
    /\ \E answer \in BOOLEAN : pc' = IF answer THEN "apply_fix" ELSE "exit1"
    /\ UNCHANGED envVars
    /\ UNCHANGED <<files, entities, added, deleted, config, contents, summary, out>>
    /\ UNCHANGED cliVars

\* push, lines 1732-1763 and 1775-1776: the suggested title becomes the
\* commit message and is validated once more
PushRevalidate ==
    /\ pc = "apply_fix"
    /\ commit_msg' = suggested.title
    /\ validation' = validate(config, SummaryForValidation(suggested.title), ValidatedFiles)
    /\ trace' = Append(trace, ValidateCall(suggested.title, validation'.valid))
    /\ commit_title' = IF validation'.valid THEN suggested.title ELSE commit_title
    /\ pc' = IF validation'.valid THEN "gate_passed" ELSE "exit1"
    /\ UNCHANGED envVars
    /\ UNCHANGED <<files, entities, added, deleted, config, contents, summary, out,
                   opts, analysis, suggested, commits>>

\* push, lines 1811-1885: a dry run prints the plan and returns
PushDryRun ==
    /\ pc = "gate_passed"
    /\ opts.dry_run
    /\ pc' = "returned"
    /\ UNCHANGED envVars
    /\ UNCHANGED <<files, entities, added, deleted, config, contents, summary, out>>
    /\ UNCHANGED cliVars

\* push, lines 1916-1971: the test stage.  Without --yes the user is asked
\* whether to run the tests and whether to go on when they fail; with --yes
\* the tests run and a failure ends the run.
PushTestStage ==
    /\ pc = "gate_passed"
    /\ ~opts.dry_run
    /\ \E run \in BOOLEAN, passed \in BOOLEAN, go_on \in BOOLEAN :
          LET aborted == IF opts.yes THEN ~passed ELSE run /\ ~passed /\ ~go_on
          IN  pc' = IF aborted THEN "exit1" ELSE "commit_stage"
    /\ UNCHANGED envVars
    /\ UNCHANGED <<files, entities, added, deleted, config, contents, summary, out>>
    /\ UNCHANGED cliVars

\* push, lines 1973-1980: "Commit changes?" unless --yes
PushCommitStage ==
    /\ pc = "commit_stage"
    /\ \E answer \in BOOLEAN :
          pc' = IF ~opts.yes /\ ~answer THEN "exit1"
                ELSE IF opts.split /\ opts.message = "" THEN "split"
                ELSE "meta"
    /\ UNCHANGED envVars
    /\ UNCHANGED <<files, entities, added, deleted, config, contents, summary, out>>
    /\ UNCHANGED cliVars

\* the lines of one group: every staged file carries analysis.per_file
GroupAdded(paths) == analysis.per_file[1] * Len(paths)
GroupDeleted(paths) == analysis.per_file[2] * Len(paths)

\* the group push commits next, and its paths
NextGroup == split_paths_by_type(files)[Len(commits) + 1]
NextGroupPaths == GroupPaths(files, NextGroup)

\* the title of generate_detailed_message(paths=...) for the next group
GroupTitle(found) ==
    IF opts.enhanced
    THEN generate_enhanced_summary(NextGroupPaths, contents, found,
                                   GroupAdded(NextGroupPaths),
                                   GroupDeleted(NextGroupPaths)).title
    ELSE found.plain

GroupCommit(found) ==
    Commit(NextGroup, apply_ticket_prefix(GroupTitle(found), opts.ticket), TRUE)

\* push, lines 1999-2014: the commit of the next group, with the title
\* generate_detailed_message gives for the paths of the group.  For a group
\* that holds every staged file the generator finds what it found before.
PushSplitCommit ==
    /\ pc = "split"
    /\ Len(commits) < Len(split_paths_by_type(files))
    /\ \E found \in PushFindings, committed \in BOOLEAN :
          /\ NextGroupPaths = files => found = analysis
          /\ found.per_file = analysis.per_file
          /\ IF committed
             THEN /\ commits' = Append(commits, GroupCommit(found))
                  /\ pc' = IF Len(commits') < Len(split_paths_by_type(files))
                           THEN "split"
                           ELSE IF opts.release THEN "release" ELSE "meta"
             ELSE /\ commits' = commits
                  /\ pc' = "exit1"
    /\ UNCHANGED envVars
    /\ UNCHANGED <<files, entities, added, deleted, config, contents, summary, out,
                   opts, analysis, commit_title, commit_msg, validation, suggested,
                   trace>>

\* push, lines 2016-2049: the release commit of the split mode, made unless
\* both --no-version-sync and --no-changelog are given: VERSION and, unless
\* --no-changelog, CHANGELOG.md are written and committed
PushReleaseCommit ==
    /\ pc = "release"
    /\ tree' = IF opts.no_changelog
               THEN WriteVersion(tree, BumpedVersion)
               ELSE update_changelog(WriteVersion(tree, BumpedVersion),
                                     BumpedVersion, files, commit_msg)
    /\ \E committed \in BOOLEAN :
          IF committed
          THEN /\ commits' = Append(commits,
                      Commit("release",
                             apply_ticket_prefix("chore(release): bump version", opts.ticket),
                             FALSE))
               /\ pc' = "meta"
          ELSE /\ commits' = commits
               /\ pc' = "exit1"
    /\ UNCHANGED <<nulls, diff_content, world, io, new_version>>
    /\ UNCHANGED <<files, entities, added, deleted, config, contents, summary, out,
                   opts, analysis, commit_title, commit_msg, validation, suggested,
                   trace>>

\* push, lines 2051-2070: VERSION is written and, unless --no-changelog,
\* update_changelog is called, in the split mode as in the single-commit
\* mode; lines 2073-2074: no commit follows in the split mode
PushVersionAndChangelog ==
    /\ pc = "meta"
    /\ tree' = IF opts.no_changelog
               THEN WriteVersion(tree, BumpedVersion)
               ELSE update_changelog(WriteVersion(tree, BumpedVersion),
                                     BumpedVersion, files, commit_msg)
    /\ pc' = IF opts.split /\ opts.message = "" THEN "committed" ELSE "commit"
    /\ UNCHANGED <<nulls, diff_content, world, io, new_version>>
    /\ UNCHANGED <<files, entities, added, deleted, config, contents, summary, out>>
    /\ UNCHANGED cliVars

\* push, lines 2072-2083: the single commit; commit_title with the body of a
\* generated message, commit_msg otherwise
PushCommit ==
    /\ pc = "commit"
    /\ \E committed \in BOOLEAN :
          IF committed
          THEN /\ commits' = Append(commits,
                      Commit("all",
                             IF opts.message = "" THEN commit_title ELSE commit_msg,
                             opts.message = ""))
               /\ pc' = "committed"
          ELSE /\ commits' = commits
               /\ pc' = "exit1"
    /\ UNCHANGED envVars
    /\ UNCHANGED <<files, entities, added, deleted, config, contents, summary, out,
                   opts, analysis, commit_title, commit_msg, validation, suggested,
                   trace>>

\* validate, lines 2624-2665 and 2678-2680: generate the summary and validate
\* it; an invalid one is fixed with --fix and ends the run with 1 without
CmdValidate ==
    /\ pc = "validate"
    /\ summary' = [generate_enhanced_summary(files, contents, analysis, added, deleted)
                      EXCEPT !.title = analysis.desc]
    /\ validation' = validate(config, summary', files)
    /\ trace' = Append(trace, ValidateCall(analysis.desc, validation'.valid))
    /\ pc' = IF validation'.valid THEN "returned"
             ELSE IF opts.fix THEN "fix"
             ELSE "exit1"
    /\ UNCHANGED envVars
    /\ UNCHANGED <<files, entities, added, deleted, config, contents, out, opts,
                   analysis, commit_title, commit_msg, suggested, commits>>

\* validate --fix, lines 2667-2677: one auto_fix, reported as approved
CmdValidateFix ==
    /\ pc = "fix"
    /\ suggested' = auto_fix(config, summary, files, added, deleted)
    /\ trace' = Append(trace, AutoFixCall(summary.title))
    /\ out' = [report |-> "SUMMARY APPROVED"]
    /\ pc' = "returned"
    /\ UNCHANGED envVars
    /\ UNCHANGED <<files, entities, added, deleted, config, contents, summary,
                   opts, analysis, commit_title, commit_msg, validation, commits>>

\* fix-summary, lines 2688-2753: generate the summary, auto_fix it and report
\* it as fixed, or as a preview with --preview
CmdFixSummary ==
    /\ pc = "fix-summary"
    /\ summary' = [generate_enhanced_summary(files, contents, analysis, added, deleted)
                      EXCEPT !.title = analysis.desc]
    /\ suggested' = auto_fix(config, summary', files, added, deleted)
    /\ trace' = Append(trace, AutoFixCall(analysis.desc))
    /\ out' = [report |-> IF opts.preview THEN "Preview mode" ELSE "SUMMARY FIXED"]
    /\ pc' = "returned"
    /\ UNCHANGED envVars
    /\ UNCHANGED <<files, entities, added, deleted, config, contents,
                   opts, analysis, commit_title, commit_msg, validation, commits>>

\* push started outside a repository: the options that matter before the
\* first commit
FreshOptions ==
    {o \in PushOptions :
        o.message = "" /\ o.ticket = "" /\ o.enabled /\ ~o.split /\ ~o.release}

\* a command run in a repository with staged changes, or push run in a
\* directory that is no repository yet
InitPush ==
    /\ nulls = {}
    /\ diff_content = ""
    /\ io = <<>>
    /\ new_version = ""
    /\ \/ /\ world = StagedRepository
          /\ tree = ReleasedTree
          /\ opts \in PushOptions \cup ValidateOptions \cup FixSummaryOptions
          /\ files \in PushFileLists
          /\ analysis \in PushFindings
       \/ /\ world \in {d \in Directories : ~d.in_repo}
          /\ tree = NoTree
          /\ opts \in FreshOptions
          /\ files = <<"goal/formatter.py">>
          /\ analysis \in {f \in PushFindings : f.desc = "output formatting"
                                                  /\ f.per_file = <<5, 150>>}
    /\ pc = IF opts.cmd = "push" THEN "ensure" ELSE opts.cmd
    /\ added = analysis.per_file[1] * Len(files)
    /\ deleted = analysis.per_file[2] * Len(files)
    /\ config \in Configs
    /\ contents = PushContents
    /\ entities = <<>>
    /\ summary = BlankSummary
    /\ out = <<>>
    /\ commit_title = ""
    /\ commit_msg = ""
    /\ validation = NoValidation
    /\ suggested = BlankSummary
    /\ trace = <<>>
    /\ commits = <<>>

NextPush ==
    \/ EnsureCheck
    \/ EnsureChoose
    \/ EnsureInit
    \/ EnsureUrl
    \/ EnsureRemote
    \/ EnsureMerge
    \/ EnsureClone
    \/ PushStart
    \/ PushGenerate
    \/ PushSkipGate
    \/ PushValidate
    \/ PushAutoFix
    \/ PushConfirmFix
    \/ PushRevalidate
    \/ PushDryRun
    \/ PushTestStage
    \/ PushCommitStage
    \/ PushSplitCommit
    \/ PushReleaseCommit
    \/ PushVersionAndChangelog
    \/ PushCommit
    \/ CmdValidate
    \/ CmdValidateFix
    \/ CmdFixSummary

SpecPush == InitPush /\ [][NextPush]_vars

-----------------------------------------------------------------------------
(* Properties of the validator, the generator and the fixer *)

\* C3: the score validate returns is 100 - 20 x errors - 5 x warnings clamped
\* to [0,100]; so it lies in 0..100 and is 100 exactly when there is neither
\* an error nor a warning.
C3_ScoreFormula ==
    pc \in {"validated", "revalidated"} =>
        LET raw == 100 - 20 * Len(out.errors) - 5 * Len(out.warnings)
        IN  /\ out.score = (IF raw < 0 THEN 0 ELSE IF raw > 100 THEN 100 ELSE raw)
            /\ 0 <= out.score /\ out.score <= 100
            /\ (out.score = 100 <=> (out.errors = <<>> /\ out.warnings = <<>>))

\* a validation with six errors or more and a warning, scored 0
C3_Witness ==
    /\ pc = "validated"
    /\ Len(out.errors) >= 6
    /\ Len(out.warnings) = 1
    /\ out.score = 0

NoSelfLoop(relations) == \A i \in 1..Len(relations) : relations[i].from # relations[i].to

\* C4: the relation list of a generated summary and of the result of
\* auto_fix holds no edge from a module to itself.
C4_NoSelfLoops ==
    pc \in {"generated", "fixed"} => NoSelfLoop(summary.relations)

\* a summary was generated from files among which detection found an import
\* of a module by itself (core.py imports core, core.md is changed too)
C4_Witness ==
    /\ pc = "generated"
    /\ ~NoSelfLoop(detect_file_relations(dedupe_files(files), contents))
    /\ summary.relations # <<>>

\* C5: after relation detection in a generated summary, and after auto_fix,
\* the relation list of the summary has at most 10 entries.
C5_RelationCap ==
    pc \in {"generated", "fixed"} => Len(summary.relations) <= 10

\* auto_fix was given more than ten distinct edges and kept ten
C5_Witness ==
    /\ pc = "fixed"
    /\ Len(out.arg.relations) > 10
    /\ Len(summary.relations) = 10

\* the number of relations with a generic name at either end
GenericCount(relations) ==
    Cardinality({i \in 1..Len(relations) :
                    \/ Lower(relations[i].from) \in GENERIC_NODES
                    \/ Lower(relations[i].to) \in GENERIC_NODES})

\* C6: after auto_fix at most one relation of the summary touches a
\* generic-node name.
C6_GenericGate ==
    pc = "fixed" => GenericCount(summary.relations) <= 1

\* auto_fix was given two relations or more that touch a generic node, and
\* other relations that it kept
C6_Witness ==
    /\ pc = "fixed"
    /\ GenericCount(out.arg.relations) >= 2
    /\ summary.relations # <<>>

\* C7: dedupe_files and dedupe_relations applied to their own output return
\* it unchanged.
C7_IdempotentDedup ==
    pc \in {"relations_deduped_twice", "files_deduped_twice"} => out.list = out.arg

\* the first application of dedupe_relations shortened a list of more than
\* ten edges, the second one was applied to what it returned
C7_Witness ==
    /\ pc = "relations_deduped_twice"
    /\ Len(summary.relations) > 10
    /\ Len(out.arg) < Len(summary.relations)
    /\ Len(out.arg) >= 2

\* C8: when the description of the title handed to auto_fix holds a banned
\* word, the description of the title it returns holds none.
C8_FixedTitleNotBanned ==
    (pc = "fixed" /\ has_banned_words(BANNED_TITLE_WORDS, out.arg.title) # {})
        => has_banned_words(BANNED_TITLE_WORDS, summary.title) = {}

-----------------------------------------------------------------------------
(* Properties of the push and validate commands *)

\* C9: in goal push with a generated enhanced message and the quality gate
\* enabled, every commit made with a generated message carries a title for
\* which validate returned valid in this run, or was confirmed by the user.
C9_HardStop ==
    GateApplies =>
        \A i \in 1..Len(commits) :
            commits[i].generated => (commits[i].validated \/ commits[i].confirmed)

\* the same for the single commit of a run without --split
C9_SingleCommitGated ==
    GateApplies =>
        \A i \in 1..Len(commits) :
            (commits[i].generated /\ commits[i].group = "all") => commits[i].validated

\* each call of the validator by what it was and what it returned
CallKinds ==
    [i \in 1..Len(trace) |->
        IF trace[i].call = "auto_fix" THEN "auto_fix"
        ELSE IF trace[i].valid THEN "valid" ELSE "invalid"]

\* C10: the validator calls of one run of push or validate are a prefix of
\* invalid, auto_fix, (valid | invalid), or the single call valid: a valid
\* summary gets no auto_fix, an invalid one gets at most one auto_fix and at
\* most one re-validation after it.
C10_StateMachine ==
    opts.cmd \in {"push", "validate"} =>
        CallKinds \in {<<>>, <<"valid">>, <<"invalid">>, <<"invalid", "auto_fix">>,
                       <<"invalid", "auto_fix", "valid">>,
                       <<"invalid", "auto_fix", "invalid">>}

\* a run of push whose fixed title failed the re-validation and that ended
\* there, with no commit
C10_Witness ==
    /\ opts.cmd = "push"
    /\ CallKinds = <<"invalid", "auto_fix", "invalid">>
    /\ pc = "exit1"
    /\ commits = <<>>

\* a run of push whose fixed title passed the re-validation and was committed
C10_FixedAndCommitted ==
    /\ CallKinds = <<"invalid", "auto_fix", "valid">>
    /\ pc = "committed"

\* the validator was run on the fixed title after the last auto_fix of the
\* run and returned valid
RevalidatedValid ==
    \E i, j \in 1..Len(trace) :
        /\ i < j
        /\ trace[i].call = "auto_fix"
        /\ trace[j].call = "validate" /\ trace[j].title = suggested.title
        /\ trace[j].valid

\* the run called auto_fix and then reported the summary as accepted: push
\* went on past the gate, validate --fix printed SUMMARY APPROVED, fix-summary
\* printed SUMMARY FIXED
FixReportedAccepted ==
    /\ \E i \in 1..Len(trace) : trace[i].call = "auto_fix"
    /\ \/ opts.cmd = "push" /\ pc \notin {"invalid", "confirm_fix", "apply_fix", "exit1"}
       \/ opts.cmd = "validate" /\ pc = "returned"
       \/ opts.cmd = "fix-summary" /\ pc = "returned" /\ ~opts.preview

\* C11: every caller of auto_fix runs the validator again on the fixed
\* summary before it reports the summary as accepted, and reports no success
\* when the fixed summary still fails.
C11_CallersRevalidate == FixReportedAccepted => RevalidatedValid

\* the same for push alone
C11_PushRevalidates == (opts.cmd = "push" /\ FixReportedAccepted) => RevalidatedValid

\* validate --fix reported SUMMARY APPROVED for a fixed summary that the
\* validator rejects
C11_ApprovedButInvalid ==
    /\ opts.cmd = "validate" /\ pc = "returned"
    /\ out = [report |-> "SUMMARY APPROVED"]
    /\ ~validate(config, suggested, files).valid

-----------------------------------------------------------------------------
(* Summaries with missing or null keys *)

\* the keys of the summary dict that validate and auto_fix read
SummaryKeys == {"title", "metrics", "relations", "analysis", "capabilities"}

\* the summary dict sm with the keys of `absent` deleted, read through the
\* defaults of summary.get(key, default) in validate (379-390, 440-441) and
\* auto_fix (510, 521, 543, 568)
Without(sm, absent) ==
    [sm EXCEPT
        !.title = IF "title" \in absent THEN "" ELSE @,
        !.metrics = IF "metrics" \in absent THEN BlankSummary.metrics ELSE @,
        !.relations = IF "relations" \in absent THEN <<>> ELSE @,
        !.has_relations = IF "relations" \in absent THEN FALSE ELSE @,
        !.added_entities = IF "analysis" \in absent THEN <<>> ELSE @,
        !.capabilities = IF "capabilities" \in absent THEN <<>> ELSE @,
        !.has_capabilities = IF "capabilities" \in absent THEN FALSE ELSE @]

\* the exception validate raises for a summary whose keys in nl hold None,
\* "" when it returns: summary.get(key, default) gives None for such a key,
\* and the first use of that None as a dict, a string or a list raises
validate_raises(nl) ==
    IF "relations" \in nl THEN "AttributeError"          \* 381: None.get
    ELSE IF "metrics" \in nl THEN "AttributeError"       \* 390: None.get
    ELSE IF "title" \in nl THEN "TypeError"              \* 394 -> 114: ':' in None
    ELSE IF "capabilities" \in nl THEN "TypeError"       \* 469: len(None)
    ELSE ""

\* the exception auto_fix raises for such a summary, "" when it returns;
\* 'analysis' is read only when the title is rewritten or has the
\* conventional form
auto_fix_raises(cfg, sm, nl) ==
    IF "title" \in nl THEN "TypeError"                   \* 511 -> 114
    ELSE IF /\ "analysis" \in nl
            /\ \/ has_banned_words(BannedWords(cfg), sm.title) # {}     \* 521
               \/ MatchConventional(sm.title).ok                       \* 535
         THEN "AttributeError"
    ELSE IF "relations" \in nl THEN "TypeError"          \* 543: 'relations' in None
    ELSE IF "capabilities" \in nl THEN "TypeError"       \* 569 -> 148: sorted(None)
    ELSE ""

MalformedTitles ==
    {"feat(goal): CLI interface improvements", "code improvements",
     "feat(core): update logging"}

\* a summary of which any key may be missing or None
InitMalformed ==
    /\ NoCommand
    /\ pc = "malformed"
    /\ files = <<"goal/cli.py">>
    /\ entities = <<>>
    /\ added = 50
    /\ deleted = 2
    /\ config \in {EmptyConfig, DefaultConfig}
    /\ contents = NoContents
    /\ out = <<>>
    /\ \E t \in MalformedTitles, absent \in SUBSET SummaryKeys :
          /\ summary = Without([GoodSummary EXCEPT !.title = t], absent)
          /\ nulls \in SUBSET (SummaryKeys \ absent)
    /\ diff_content = ""
    /\ world = StagedRepository
    /\ io = <<>>
    /\ tree = NoTree
    /\ new_version = ""

\* validator.validate(summary, files) on such a summary
TryValidate ==
    /\ pc = "malformed"
    /\ out' = [raised |-> validate_raises(nulls),
               result |-> IF validate_raises(nulls) = ""
                          THEN validate(config, summary, files)
                          ELSE NoValidation]
    /\ pc' = IF out'.raised = "" THEN "validated" ELSE "raised"
    /\ UNCHANGED envVars
    /\ UNCHANGED <<files, entities, added, deleted, config, contents, summary>>
    /\ UNCHANGED cliVars

\* validator.auto_fix(summary, files, added, deleted) on such a summary
TryAutoFix ==
    /\ pc = "malformed"
    /\ out' = [raised |-> auto_fix_raises(config, summary, nulls),
               result |-> IF auto_fix_raises(config, summary, nulls) = ""
                          THEN auto_fix(config, summary, files, added, deleted)
                          ELSE summary]
    /\ pc' = IF out'.raised = "" THEN "fixed" ELSE "raised"
    /\ UNCHANGED envVars
    /\ UNCHANGED <<files, entities, added, deleted, config, contents, summary>>
    /\ UNCHANGED cliVars

NextMalformed == TryValidate \/ TryAutoFix

SpecMalformed == InitMalformed /\ [][NextMalformed]_vars

\* C12: validate and auto_fix never raise, whichever of title, metrics,
\* relations, analysis and capabilities is absent or null in the summary.
C12_NeverRaises == pc # "raised"

\* with every key absent and none null, both return
C12_AbsentKeysReturn ==
    (nulls = {} /\ pc # "malformed") => out.raised = ""

\* a summary with a null title makes validate raise
C12_NullTitleRaises ==
    /\ pc = "raised"
    /\ nulls = {"title"}
    /\ out.raised = "TypeError"

-----------------------------------------------------------------------------
(* Relation chains: claims *)

\* C13: detect_file_relations returns the same edges and the same chain
\* string on every call for the same files.
C13_SameOnEveryCall ==
    (pc = "detected" /\ Len(out) = 2) => out[1] = out[2]

\* the edges are the same on every call
C13_SameEdges ==
    (pc = "detected" /\ Len(out) = 2) => out[1].relations = out[2].relations

\* two calls on cli.py and api.py, both importing core, give two chains
C13_ChainsDiffer ==
    /\ pc = "detected" /\ Len(out) = 2
    /\ out[1].chain = "cli->core, api->core"
    /\ out[2].chain = "api->core, cli->core"

-----------------------------------------------------------------------------
(* Conventional titles: claims *)

CommitTypes ==
    {"feat", "fix", "docs", "style", "refactor", "perf", "test", "build", "chore"}

\* title is type(scope): description with a type of CommitTypes
Conventional(title) ==
    /\ MatchConventional(title).ok
    /\ MatchConventional(title).type \in CommitTypes
    /\ LStrip(MatchConventional(title).rest) # ""

\* the commits whose title comes from a generated or auto-fixed summary
SummaryCommits ==
    {i \in 1..Len(commits) : commits[i].generated /\ opts.enhanced}

\* C14: every title push puts in a commit message from a generated or
\* auto-fixed summary has the form type(scope): description, the type being a
\* conventional-commit type.
C14_ConventionalTitles ==
    opts.cmd = "push" => \A i \in SummaryCommits : Conventional(commits[i].title)

\* the titles are conventional when no ticket is given
C14_ConventionalWithoutTicket ==
    (opts.cmd = "push" /\ opts.ticket = "")
        => \A i \in SummaryCommits : Conventional(commits[i].title)

\* a commit whose generated title carries the ticket in front of the type
C14_TicketInFront ==
    /\ opts.ticket = "ABC-1"
    /\ \E i \in SummaryCommits :
          commits[i].title = "[ABC-1] feat(goal): CLI interface improvements"

-----------------------------------------------------------------------------
(* EnhancedSummaryGenerator.detect_capabilities *)

\* VALUE_PATTERNS, in the order of the dict: capability id and signatures
VALUE_PATTERNS ==
    << [id |-> "ast_analysis",
        signatures |-> <<"ast.parse", "ast.walk", "libcst", "tree-sitter", "AST">>],
       [id |-> "dependency_graph",
        signatures |-> <<"networkx", "relations", "dependencies", "graph",
                         "detect_relations">>],
       [id |-> "quality_metrics",
        signatures |-> <<"radon", "cyclomatic", "complexity", "coverage", "metrics">>],
       [id |-> "multi_language",
        signatures |-> <<"_analyze_python", "_analyze_js", "language", "parser">>],
       [id |-> "config_system",
        signatures |-> <<"yaml", "config", "GoalConfig", "settings">>],
       [id |-> "cli_interface",
        signatures |-> <<"click", "command", "option", "argument">>],
       [id |-> "output_formatting",
        signatures |-> <<"markdown", "format", "render", "template">>],
       [id |-> "changelog",
        signatures |-> <<"changelog", "CHANGELOG", "version", "release">>] >>

\* detect_capabilities(files, diff_content): the ids of the capabilities, in
\* the order they are appended; one of the signatures matches when its
\* lower case is in the lower case of the diff and the file names
detect_capabilities(fs, diff) ==
    LET combined_text == Lower(diff \o " " \o Join(fs, " "))
        Matches(k) ==
            \E n \in 1..Len(VALUE_PATTERNS[k].signatures) :
                Contains(combined_text, Lower(VALUE_PATTERNS[k].signatures[n]))
    IN  Concat([k \in 1..Len(VALUE_PATTERNS) |->
                  IF Matches(k) THEN <<VALUE_PATTERNS[k].id>> ELSE <<>>])

CapabilityFiles == {"goal/cli.py", "graph.py", "metrics.py", "README.md", "config.yaml"}

DiffTexts ==
    {"", "import click", "metrics of the graph", "render AST with a parser",
     "release notes", "x = 1"}

\* staged files and their diff
InitCapabilities ==
    /\ NoCommand
    /\ nulls = {}
    /\ world = StagedRepository
    /\ io = <<>>
    /\ tree = NoTree
    /\ new_version = ""
    /\ pc = "changes"
    /\ files \in ChangedLists(CapabilityFiles, MaxFiles)
    /\ diff_content \in DiffTexts
    /\ contents = NoContents
    /\ entities = <<>>
    /\ added = 50
    /\ deleted = 2
    /\ config = EmptyConfig
    /\ summary = BlankSummary
    /\ out = <<>>

DetectCapabilities ==
    /\ pc = "changes"
    /\ out' = detect_capabilities(files, diff_content)
    /\ pc' = "capabilities"
    /\ UNCHANGED envVars
    /\ UNCHANGED <<files, entities, added, deleted, config, contents, summary>>
    /\ UNCHANGED cliVars

\* generate_enhanced_summary, line 983: the detected capabilities, re-ordered
PrioritizeCapabilities ==
    /\ pc = "capabilities"
    /\ out' = prioritize_capabilities(out)
    /\ pc' = "prioritized"
    /\ UNCHANGED envVars
    /\ UNCHANGED <<files, entities, added, deleted, config, contents, summary>>
    /\ UNCHANGED cliVars

NextCapabilities == DetectCapabilities \/ PrioritizeCapabilities

SpecCapabilities == InitCapabilities /\ [][NextCapabilities]_vars

\* no id twice
UniqueIds(caps) == \A i, j \in 1..Len(caps) : caps[i] = caps[j] => i = j

\* priorities never rise along the list
PriorityOrdered(caps) ==
    \A i, j \in 1..Len(caps) :
        i < j => CapabilityPriority(caps[i]) >= CapabilityPriority(caps[j])

\* C15: detect_capabilities returns each capability id at most once, and the
\* list it returns is ordered by capability priority, highest first.
C15_UniqueAndOrdered ==
    pc = "capabilities" => UniqueIds(out) /\ PriorityOrdered(out)

\* the ids are unique, and ordered once prioritize_capabilities has run
C15_UniqueThenOrdered ==
    /\ pc = "capabilities" => UniqueIds(out)
    /\ pc = "prioritized" => UniqueIds(out) /\ PriorityOrdered(out)

\* dependency_graph (6) is returned in front of quality_metrics (8)
C15_OutOfOrder ==
    /\ pc = "capabilities"
    /\ out = <<"dependency_graph", "quality_metrics">>

-----------------------------------------------------------------------------
(* ensure_git_repository: claims *)

Prompted == \E i \in 1..Len(io) : io[i].kind = "prompt"

ChoseExit == \E i \in 1..Len(io) : io[i] = Prompt("action", "4")

\* a URL was typed that validate_repo_url rejects
GaveInvalidUrl ==
    \E i \in 1..Len(io) :
        /\ io[i].kind = "prompt" /\ io[i].name = "url"
        /\ Strip(io[i].answer) # ""
        /\ ~validate_repo_url(io[i].answer)

InitOrCloneFailed ==
    \E i \in 1..Len(io) :
        io[i].kind = "git" /\ io[i].name \in {"init", "clone"} /\ ~io[i].ok

\* the value returned says whether the process is now inside a repository
ReturnsWhetherInRepo == out.ret <=> world.in_repo

\* C17: ensure_git_repository returns True if and only if the process is
\* inside a git repository at return: False when the user chose exit, gave an
\* invalid URL, or init or clone failed, and False without any prompt when
\* auto=True outside a repository.
C17_TrueIffInRepo ==
    (opts.cmd = "ensure" /\ pc = "ensured") =>
        /\ ReturnsWhetherInRepo
        /\ ChoseExit => ~out.ret
        /\ GaveInvalidUrl => ~out.ret
        /\ InitOrCloneFailed => ~out.ret
        /\ (auto /\ ~world.in_repo) => (~out.ret /\ ~Prompted)

\* the same, an invalid URL counting only for the clone option
C17_TrueIffInRepoCloneUrl ==
    (opts.cmd = "ensure" /\ pc = "ensured") =>
        /\ ReturnsWhetherInRepo
        /\ ChoseExit => ~out.ret
        /\ (GaveInvalidUrl /\ io[1] = Prompt("action", "2")) => ~out.ret
        /\ InitOrCloneFailed => ~out.ret
        /\ (auto /\ ~world.in_repo) => (~out.ret /\ ~Prompted)

\* option 1 with an invalid URL: git init has run, True is returned
C17_InvalidUrlReturnsTrue ==
    /\ opts.cmd = "ensure" /\ pc = "ensured"
    /\ io = <<Prompt("action", "1"), Git("init", TRUE), Prompt("url", "not-a-url")>>
    /\ out.ret

-----------------------------------------------------------------------------
(* goal push --dry-run: claims *)

\* the mutating git commands run so far
MutatingRun ==
    {i \in 1..Len(io) : io[i].kind = "git" /\ io[i].name \in MutatingCommands}

\* C16: goal push --dry-run performs no mutating git operation (init, add,
\* commit, tag, push) from invocation to exit, and creates no commit.
C16_DryRunMutatesNothing ==
    (opts.cmd = "push" /\ opts.dry_run) => (MutatingRun = {} /\ commits = <<>>)

\* a dry run that is not asked what to do about a missing repository
\* mutates nothing
C16_DryRunInRepository ==
    (opts.cmd = "push" /\ opts.dry_run /\ ~Prompted)
        => (MutatingRun = {} /\ commits = <<>>)

\* a dry run outside a repository has run git init and returned
C16_DryRunInitialized ==
    /\ opts.cmd = "push" /\ opts.dry_run
    /\ pc = "returned"
    /\ io = <<Prompt("action", "3"), Git("init", TRUE)>>
    /\ world.in_repo

-----------------------------------------------------------------------------
(* cli: sync_all_versions *)

\* \s
Whitespace == {" ", "\t", "\n", "\r"}

RECURSIVE SkipWhitespace(_, _)
\* the index behind the run \s* that starts at index i
SkipWhitespace(text, i) ==
    IF Char(text, i) \in Whitespace THEN SkipWhitespace(text, i + 1) ELSE i

RECURSIVE SkipDigits(_, _)
\* the index behind the run \d* that starts at index i
SkipDigits(text, i) ==
    IF Char(text, i) \in DigitSet THEN SkipDigits(text, i + 1) ELSE i

\* where ^ matches with re.MULTILINE
LineStarts(text) ==
    {1} \cup {k + 1 : k \in {j \in 1..Len(text) : Char(text, j) = "\n"}}

\* \d+\.\d+\.\d+ at index i: the index behind the match, 0 without a match
VersionEnd(text, i) ==
    LET a == SkipDigits(text, i)
        b == SkipDigits(text, a + 1)
        c == SkipDigits(text, b + 1)
    IN  IF /\ a > i /\ Char(text, a) = "."
           /\ b > a + 1 /\ Char(text, b) = "."
           /\ c > b + 1
        THEN c ELSE 0

Quotes == {"\"", "'"}

\* (__version__\s*=\s*["'])\d+\.\d+\.\d+(["']) at index i: whether it
\* matches, and the indexes of the first digit and of the closing quote
MatchInitVersion(text, i) ==
    LET eq == SkipWhitespace(text, i + Len("__version__"))
        quote == SkipWhitespace(text, eq + 1)
        close == VersionEnd(text, quote + 1)
    IN  IF /\ i <= Len(text)
           /\ StartsWith(SubSeq(text, i, Len(text)), "__version__")
           /\ Char(text, eq) = "="
           /\ Char(text, quote) \in Quotes
           /\ close # 0
           /\ Char(text, close) \in Quotes
        THEN [ok |-> TRUE, from |-> quote + 1, to |-> close]
        ELSE [ok |-> FALSE, from |-> 0, to |-> 0]

\* the line starts at which the pattern matches
VersionMatches(text) == {i \in LineStarts(text) : MatchInitVersion(text, i).ok}

\* re.sub(pattern, rf'\g<1>{new_version}\g<2>', content, count=1,
\* flags=re.MULTILINE): the leftmost match gets the new version
SubInitVersion(text, v) ==
    IF VersionMatches(text) = {} THEN text
    ELSE LET i == CHOOSE k \in VersionMatches(text) :
                     \A m \in VersionMatches(text) : k <= m
         IN  SubSeq(text, 1, MatchInitVersion(text, i).from - 1) \o v
                \o SubSeq(text, MatchInitVersion(text, i).to, Len(text))

\* the directory names sync_all_versions skips
SKIP_DIRS == {"venv", ".venv", "build", "dist", "node_modules"}

\* Path('.').rglob('__init__.py') yields the path with these parts
IsInitFile(parts) == parts # <<>> /\ parts[Len(parts)] = "__init__.py"

\* the skip rule without the test for '.egg-info'
SkippedInit_dirs_only(parts) ==
    \E k \in 1..Len(parts) : parts[k] \in SKIP_DIRS

\* lines 700-703: a skipped directory among the parts, or '.egg-info' in
\* the path
SkippedInit(parts) ==
    \/ \E k \in 1..Len(parts) : parts[k] \in SKIP_DIRS
    \/ Contains(Join(parts, "/"), ".egg-info")

\* the tree sync_all_versions(new_version) leaves, in a project with none of
\* package.json, composer.json, pyproject.toml, Cargo.toml, *.csproj, pom.xml
\* and README.md
sync_all_versions(tr, v) ==
    [p \in DOMAIN tr \cup {<<"VERSION">>} |->
        IF p = <<"VERSION">> THEN v \o "\n"
        ELSE IF IsInitFile(p) /\ ~SkippedInit(p) THEN SubInitVersion(tr[p], v)
        ELSE tr[p]]

\* texts of an __init__.py
InitTexts ==
    {"__version__ = \"0.1.0\"\n",
     "import os\n__version__='0.1.0'\n",
     "__version__ =\n    \"10.20.30\" # current\n",
     "__version__ = \"1.0\"\n",
     "__version__ = \"0.1.0rc1\"\n",
     "    __version__ = \"0.1.0\"\n",
     "VERSION = \"0.1.0\"\n",
     ""}

\* __init__.py files sync_all_versions is to leave alone, and two it is not
OtherInits ==
    {<<"venv", "lib", "__init__.py">>,
     <<".venv", "lib", "site-packages", "other", "__init__.py">>,
     <<"build", "lib", "mypkg", "__init__.py">>,
     <<"mypkg", "dist", "__init__.py">>,
     <<"node_modules", "x", "__init__.py">>,
     <<"mypkg.egg-info", "__init__.py">>,
     <<"venv2", "__init__.py">>,
     <<"__init__.py">>}

\* a package with a nested package, one more __init__.py, a VERSION file or
\* none, and a module
Trees ==
    {[p \in {<<"mypkg", "__init__.py">>, <<"mypkg", "sub", "__init__.py">>, other,
             <<"mypkg", "core.py">>} \cup version_file |->
         IF p = <<"mypkg", "__init__.py">> THEN top
         ELSE IF p = <<"mypkg", "sub", "__init__.py">> THEN nested
         ELSE IF p = other THEN "__version__ = \"0.1.0\"\n"
         ELSE IF p = <<"VERSION">> THEN "0.1.0\n"
         ELSE "__version__ = \"0.1.0\"\n"] :
        top \in InitTexts, nested \in {"__version__ = \"0.1.0\"\n", "__version__ = \"1.0\"\n"},
        other \in OtherInits, version_file \in {{}, {<<"VERSION">>}}}

InitVersions ==
    /\ NoCommand
    /\ nulls = {}
    /\ diff_content = ""
    /\ world = StagedRepository
    /\ io = <<>>
    /\ tree \in Trees
    /\ new_version \in {"0.2.0", "1.10.3"}
    /\ pc = "sync"
    /\ files = <<"mypkg/core.py">>
    /\ entities = <<>>
    /\ added = 0
    /\ deleted = 0
    /\ config = EmptyConfig
    /\ contents = NoContents
    /\ summary = BlankSummary
    /\ out = {}

\* sync_all_versions(new_version); out is the set of the paths it reports as
\* updated
SyncAllVersions ==
    /\ pc = "sync"
    /\ tree' = sync_all_versions(tree, new_version)
    /\ out' = {"VERSION"} \cup
                {Join(p, "/") : p \in {q \in DOMAIN tree : tree'[q] # tree[q]} \ {<<"VERSION">>}}
    /\ pc' = "synced"
    /\ UNCHANGED <<nulls, diff_content, world, io, new_version>>
    /\ UNCHANGED <<files, entities, added, deleted, config, contents, summary>>
    /\ UNCHANGED cliVars

NextVersions == SyncAllVersions

SpecVersions == InitVersions /\ [][NextVersions]_vars

-----------------------------------------------------------------------------
(* sync_all_versions: claims *)

\* the file lies under a venv, .venv, build, dist, node_modules or .egg-info
\* directory
UnderExcluded(parts) ==
    \E k \in 1..(Len(parts) - 1) :
        \/ parts[k] \in {"venv", ".venv", "build", "dist", "node_modules"}
        \/ EndsWith(parts[k], ".egg-info")

\* the text assigns the version v, in quotes, to __version__
AssignsVersion(text, v) ==
    \E q \in Quotes : \E i \in LineStarts(text) :
        /\ i <= Len(text)
        /\ StartsWith(SubSeq(text, i, Len(text)), "__version__")
        /\ Contains(text, q \o v \o q)

\* C18: sync_all_versions(v) rewrites __version__ to v in every __init__.py
\* of the project tree, nested packages included, and leaves every file
\* under a venv, .venv, build, dist, node_modules or .egg-info directory
\* unchanged.
C18_EveryInitRewritten ==
    [][pc = "sync" =>
        \A p \in DOMAIN tree :
            /\ UnderExcluded(p) => tree'[p] = tree[p]
            /\ (IsInitFile(p) /\ ~UnderExcluded(p) /\ Contains(tree[p], "__version__"))
                 => AssignsVersion(tree'[p], new_version)]_vars

\* C18 as it holds: the __init__.py files rewritten are those in which a
\* line starts with __version__ = "X.Y.Z" (three numbers, either quote);
\* every other __init__.py, and every file under an excluded directory, is
\* left unchanged.
C18_SemverInitsRewritten ==
    [][pc = "sync" =>
        \A p \in DOMAIN tree :
            /\ UnderExcluded(p) => tree'[p] = tree[p]
            /\ (IsInitFile(p) /\ ~UnderExcluded(p) /\ VersionMatches(tree[p]) # {})
                 => AssignsVersion(tree'[p], new_version)
            /\ (IsInitFile(p) /\ ~UnderExcluded(p) /\ VersionMatches(tree[p]) = {})
                 => tree'[p] = tree[p]]_vars

\* the package and its nested package carry the new version, the
\* __init__.py under .venv the old one
C18_Witness ==
    /\ pc = "synced"
    /\ new_version = "0.2.0"
    /\ <<".venv", "lib", "site-packages", "other", "__init__.py">> \in DOMAIN tree
    /\ tree[<<"mypkg", "__init__.py">>] = "import os\n__version__='0.2.0'\n"
    /\ tree[<<"mypkg", "sub", "__init__.py">>] = "__version__ = \"0.2.0\"\n"
    /\ tree[<<".venv", "lib", "site-packages", "other", "__init__.py">>]
          = "__version__ = \"0.1.0\"\n"

\* an __init__.py with a two-part version keeps it
C18_TwoPartVersionKept ==
    /\ pc = "synced"
    /\ tree[<<"mypkg", "__init__.py">>] = "__version__ = \"1.0\"\n"

-----------------------------------------------------------------------------
(* project_doctor: Python diagnostics *)

\* the index behind lit when text holds lit at index i, 0 otherwise; 0 (no
\* match so far) is handed on
Literal(text, i, lit) ==
    IF i # 0 /\ i + Len(lit) - 1 <= Len(text) /\ SubSeq(text, i, i + Len(lit) - 1) = lit
    THEN i + Len(lit) ELSE 0

\* the index behind \s* at index i; 0 is handed on
Spaces(text, i) == IF i = 0 THEN 0 ELSE SkipWhitespace(text, i)

\* the index of the first character from index i on that lies in set, 0
\* when there is none
FindChar(text, i, set) ==
    LET hits == {k \in i..Len(text) : i # 0 /\ Char(text, k) \in set}
    IN  IF hits = {} THEN 0 ELSE CHOOSE k \in hits : \A m \in hits : k <= m

\* text.find(sub, i - 1) + 1
Find(text, sub, i) ==
    LET hits == {k \in i..(Len(text) - Len(sub) + 1) : SubSeq(text, k, k + Len(sub) - 1) = sub}
    IN  IF hits = {} THEN 0 ELSE CHOOSE k \in hits : \A m \in hits : k <= m

RECURSIVE ReplaceAll(_, _, _)
\* text.replace(old, new) for a non-empty old
ReplaceAll(text, old, new) ==
    IF Find(text, old, 1) = 0 THEN text
    ELSE SubSeq(text, 1, Find(text, old, 1) - 1) \o new
            \o ReplaceAll(SubSeq(text, Find(text, old, 1) + Len(old), Len(text)), old, new)

RECURSIVE LStripChars(_, _)
\* s.lstrip(chars)
LStripChars(s, chars) ==
    IF s # "" /\ Char(s, 1) \in chars THEN LStripChars(Tail(s), chars) ELSE s

RECURSIVE RStripChars(_, _)
\* s.rstrip(chars)
RStripChars(s, chars) ==
    IF s # "" /\ Char(s, Len(s)) \in chars
    THEN RStripChars(SubSeq(s, 1, Len(s) - 1), chars) ELSE s

\* s.strip(chars); s.strip() is StripChars(s, Whitespace)
StripChars(s, chars) == RStripChars(LStripChars(s, chars), chars)

RECURSIVE SplitLines(_)
\* text.splitlines(keepends=True) for a text whose only line break is \n
SplitLines(text) ==
    IF text = "" THEN <<>>
    ELSE IF Find(text, "\n", 1) = 0 THEN <<text>>
    ELSE <<SubSeq(text, 1, Find(text, "\n", 1))>>
            \o SplitLines(SubSeq(text, Find(text, "\n", 1) + 1, Len(text)))

\* Issue(severity, code, file, fixed); title, detail and fix_description
\* are texts that follow from the code
Issue(severity, code, file, fixed) ==
    [severity |-> severity, code |-> code, file |-> file, fixed |-> fixed]

\* line 95
DEPRECATED_BACKEND == "setuptools.backends._legacy"

\* lines 137-141
BUILD_SYSTEM ==
    "[build-system]\nrequires = [\"setuptools>=61.0\", \"wheel\"]\nbuild-backend = \"setuptools.build_meta\"\n\n"

\* LICENSE_CLASSIFIERS_RE (lines 91-93) at the line start i: the index
\* behind the match, 0 without one
MatchLicenseClassifier(text, i) ==
    LET a == Literal(text, Spaces(text, i), "\"License")
        b == Literal(text, Spaces(text, a), "::")
        c == Literal(text, Spaces(text, b), "OSI Approved")
        d == Literal(text, Spaces(text, c), "::")
        q == FindChar(text, Spaces(text, d), {"\""})
    IN  IF q = 0 THEN 0 ELSE q + 1

\* LICENSE_CLASSIFIERS_RE.findall(content) is not empty
HasLicenseClassifier(text) ==
    \E i \in LineStarts(text) : MatchLicenseClassifier(text, i) # 0

\* lines 166-170: the line is one of the license classifiers
IsLicenseLine(line) ==
    LET stripped == StripChars(StripChars(StripChars(line, Whitespace), {","}), Whitespace)
    IN  \/ StartsWith(stripped, "\"License :: OSI Approved")
        \/ StartsWith(stripped, "'License :: OSI Approved")

\* lines 163-172
RemoveLicenseLines(text) ==
    Join(SelectSeq(SplitLines(text), LAMBDA line : ~IsLicenseLine(line)), "")

\* ^license\s*=\s* at the line start i: the index behind it, 0 without a
\* match
MatchLicenseKey(text, i) ==
    Spaces(text, Literal(text, Spaces(text, Literal(text, i, "license")), "="))

\* line 196: re.search(r'^license\s*=\s*\{', content, re.MULTILINE)
HasLicenseTable(text) ==
    \E i \in LineStarts(text) : Literal(text, MatchLicenseKey(text, i), "{") # 0

\* line 197: re.search(r'^license\s*=\s*"([^"]+)"', content, re.MULTILINE)
HasLicenseString(text) ==
    \E i \in LineStarts(text) :
        LET open == Literal(text, MatchLicenseKey(text, i), "\"")
            close == FindChar(text, open, {"\""})
        IN  open # 0 /\ close > open

\* text\s*=\s*"([^"]+)"[^}]*\} at the index t: the quoted text and the
\* index behind the closing brace; min is the least length of the quoted
\* text
MatchLicenseText(text, t, min) ==
    LET open == Literal(text, Spaces(text, Literal(text, Spaces(text, Literal(text, t, "text")), "=")), "\"")
        close == FindChar(text, open, {"\""})
        brace == FindChar(text, IF close = 0 THEN 0 ELSE close + 1, {"}"})
    IN  IF open # 0 /\ close >= open + min /\ brace # 0
        THEN [ok |-> TRUE, id |-> SubSeq(text, open, close - 1), to |-> brace + 1]
        ELSE [ok |-> FALSE, id |-> "", to |-> 0]

\* ^license\s*=\s*\{[^}]*text\s*=\s*"..."[^}]*\} at the line start i: the
\* greedy [^}]* gives the last index t, with no closing brace in front of
\* it, at which the rest matches
MatchLicenseTable(text, i, min) ==
    LET k == Literal(text, MatchLicenseKey(text, i), "{")
        limit == IF FindChar(text, k, {"}"}) = 0 THEN Len(text) ELSE FindChar(text, k, {"}"})
        ts == {t \in k..limit : k # 0 /\ MatchLicenseText(text, t, min).ok}
    IN  IF k = 0 \/ ts = {} THEN [ok |-> FALSE, id |-> "", to |-> 0]
        ELSE MatchLicenseText(text, CHOOSE t \in ts : \A u \in ts : u <= t, min)

\* the line starts at which the table pattern matches
LicenseTableMatches(text, min) ==
    {i \in LineStarts(text) : MatchLicenseTable(text, i, min).ok}

\* lines 200-202: the license id of the leftmost table, "" when no table
\* names one
LicenseId(text) ==
    IF LicenseTableMatches(text, 1) = {} THEN ""
    ELSE MatchLicenseTable(text,
            CHOOSE i \in LicenseTableMatches(text, 1) :
                \A j \in LicenseTableMatches(text, 1) : i <= j, 1).id

\* lines 214-218 for a content with one license key: the table becomes
\* license = "<id>"
SubLicenseTable(text, id) ==
    IF LicenseTableMatches(text, 0) = {} THEN text
    ELSE LET i == CHOOSE k \in LicenseTableMatches(text, 0) :
                     \A j \in LicenseTableMatches(text, 0) : k <= j
         IN  SubSeq(text, 1, i - 1) \o "license = \"" \o id \o "\""
                \o SubSeq(text, MatchLicenseTable(text, i, 0).to, Len(text))

\* authors\s*=\s*\[(.*?)\] at index p (re.DOTALL): the indexes of the first
\* character of the group and of the closing bracket
MatchAuthors(text, p) ==
    LET open == Literal(text, Spaces(text, Literal(text, Spaces(text, Literal(text, p, "authors")), "=")), "[")
        close == FindChar(text, open, {"]"})
    IN  IF close # 0 THEN [ok |-> TRUE, from |-> open, to |-> close]
        ELSE [ok |-> FALSE, from |-> 0, to |-> 0]

\* where re.search(r'authors\s*=\s*\[(.*?)\]', content, re.DOTALL) matches
AuthorsMatches(text) == {p \in 1..Len(text) : MatchAuthors(text, p).ok}

\* the leftmost match
AuthorsAt(text) == CHOOSE p \in AuthorsMatches(text) : \A q \in AuthorsMatches(text) : p <= q

\* line 227: the entries of the authors block, comments and blank lines
\* left out
author_lines(text) ==
    LET m == MatchAuthors(text, AuthorsAt(text))
        lines == SplitLines(StripChars(SubSeq(text, m.from, m.to - 1), Whitespace))
        kept == SelectSeq(lines, LAMBDA l : StripChars(l, Whitespace) # ""
                                            /\ ~StartsWith(StripChars(l, Whitespace), "#"))
    IN  [k \in 1..Len(kept) |-> RStripChars(StripChars(kept[k], Whitespace), {","})]

\* len(author_lines) != len(set(author_lines))
HasDuplicates(seq) == \E i, j \in 1..Len(seq) : i < j /\ seq[i] = seq[j]

RECURSIVE UniqueInOrder(_)
\* list(dict.fromkeys(seq))
UniqueInOrder(seq) ==
    IF seq = <<>> THEN <<>>
    ELSE LET front == UniqueInOrder(SubSeq(seq, 1, Len(seq) - 1))
         IN  IF seq[Len(seq)] \in Range(front) THEN front
             ELSE Append(front, seq[Len(seq)])

\* lines 237-240
AuthorsBlock(unique) ==
    "authors = [\n" \o Join([k \in 1..Len(unique) |-> "    " \o unique[k] \o ",\n"], "") \o "]"

\* lines 236-241 for a content with one authors list
SubAuthors(text) ==
    SubSeq(text, 1, AuthorsAt(text) - 1)
        \o AuthorsBlock(UniqueInOrder(author_lines(text)))
        \o SubSeq(text, MatchAuthors(text, AuthorsAt(text)).to + 1, Len(text))

\* lines 224-228
HasDuplicateAuthors(text) ==
    AuthorsMatches(text) # {} /\ HasDuplicates(author_lines(text))

\* lines 259-263: requires-python goes behind the first "[project]\n"
InsertRequiresPython(text) ==
    IF Find(text, "[project]\n", 1) = 0 THEN text
    ELSE SubSeq(text, 1, Find(text, "[project]\n", 1) + Len("[project]\n") - 1)
            \o "requires-python = \">=3.8\"\n"
            \o SubSeq(text, Find(text, "[project]\n", 1) + Len("[project]\n"), Len(text))

\* line 269: re.search(r'classifiers\s*=\s*\[\s*\]', content)
HasEmptyClassifiers(text) ==
    \E p \in 1..Len(text) :
        Literal(text, Spaces(text, Literal(text, Spaces(text,
            Literal(text, Spaces(text, Literal(text, p, "classifiers")), "=")), "[")), "]") # 0

\* whether the project tree holds the file
Exists(tr, path) == path \in DOMAIN tr

\* line 198 and line 201
HasOldLicenseTable(c) ==
    HasLicenseTable(c) /\ ~HasLicenseString(c) /\ LicenseTableMatches(c, 1) # {}

\* line 247
LacksRequiresPython(c) == ~Contains(c, "requires-python") /\ Contains(c, "[project]")

\* the checks of a pyproject.toml, in the order of the code
PyprojectChecks == <<"PY002", "PY003", "PY004", "PY005", "PY006", "PY007", "PY008">>

\* the severity each check reports
SeverityOf(code) ==
    IF code \in {"PY002", "PY003", "PY004"} THEN "error"
    ELSE IF code = "PY008" THEN "info"
    ELSE "warning"

\* the condition under which a check reports its issue for the content c
Finds(code, c) ==
    CASE code = "PY002" -> ~Contains(c, "[build-system]")
      [] code = "PY003" -> HasLicenseClassifier(c)
      [] code = "PY004" -> Contains(c, DEPRECATED_BACKEND)
      [] code = "PY005" -> HasOldLicenseTable(c)
      [] code = "PY006" -> HasDuplicateAuthors(c)
      [] code = "PY007" -> LacksRequiresPython(c)
      [] code = "PY008" -> HasEmptyClassifiers(c)

\* the content a check leaves under 'if auto_fix:'; PY008 has no fix
Repair(code, c) ==
    CASE code = "PY002" -> BUILD_SYSTEM \o c
      [] code = "PY003" -> RemoveLicenseLines(c)
      [] code = "PY004" -> ReplaceAll(c, DEPRECATED_BACKEND, "setuptools.build_meta")
      [] code = "PY005" -> SubLicenseTable(c, LicenseId(c))
      [] code = "PY006" -> SubAuthors(c)
      [] code = "PY007" -> InsertRequiresPython(c)
      [] code = "PY008" -> c

\* the issue of one check, when the check finds something
IssueIf(found, severity, code, file, fixed) ==
    IF found THEN <<Issue(severity, code, file, fixed)>> ELSE <<>>

RECURSIVE RunChecks(_, _, _, _)
\* lines 121-276: the checks run one after the other, each on the content
\* the checks before it left; with auto_fix a check that finds something
\* repairs the content and marks its issue fixed
RunChecks(codes, c, fix, issues) ==
    IF codes = <<>> THEN [issues |-> issues, content |-> c]
    ELSE RunChecks(Tail(codes),
                   IF fix /\ Finds(Head(codes), c) THEN Repair(Head(codes), c) ELSE c,
                   fix,
                   issues \o IssueIf(Finds(Head(codes), c), SeverityOf(Head(codes)),
                                     Head(codes), "pyproject.toml",
                                     fix /\ Head(codes) # "PY008"))

\* lines 278-282: the content is written when it changed and auto_fix is set
WriteFixes(tr, path, content, fix) ==
    IF fix /\ content # tr[path] THEN [tr EXCEPT ![path] = content] ELSE tr

\* the issues and the tree for the outcome of the checks
Diagnosis(tr, run, fix) ==
    [issues |-> run.issues, tree |-> WriteFixes(tr, <<"pyproject.toml">>, run.content, fix)]

\* _diagnose_python(project_dir, auto_fix): the issues and the project
\* tree left behind
diagnose_python(tr, fix) ==
    IF /\ ~Exists(tr, <<"pyproject.toml">>)
       /\ ~Exists(tr, <<"setup.py">>)
       /\ ~Exists(tr, <<"setup.cfg">>)
    THEN [issues |-> IssueIf(Exists(tr, <<"requirements.txt">>), "warning", "PY001", "", FALSE),
          tree |-> tr]
    ELSE IF ~Exists(tr, <<"pyproject.toml">>) THEN [issues |-> <<>>, tree |-> tr]
    ELSE Diagnosis(tr, RunChecks(PyprojectChecks, tr[<<"pyproject.toml">>], fix, <<>>), fix)

-----------------------------------------------------------------------------
(* project_doctor: the other project types *)

\* a JSON string at index i (no escapes): its text and the index behind it
ParseString(text, i) ==
    LET open == Literal(text, i, "\"")
        close == FindChar(text, open, {"\""})
    IN  IF close = 0 THEN [ok |-> FALSE, value |-> "", to |-> 0]
        ELSE [ok |-> TRUE, value |-> SubSeq(text, open, close - 1), to |-> close + 1]

RECURSIVE ParseMembers(_, _, _)
\* the members "key": "value" of a JSON object from index i on, behind the
\* members in acc: the pairs in the order of the text, or the failure
ParseMembers(text, i, acc) ==
    LET key == ParseString(text, Spaces(text, i))
        colon == Literal(text, Spaces(text, key.to), ":")
        value == ParseString(text, Spaces(text, colon))
        next == Spaces(text, value.to)
        pairs == Append(acc, <<key.value, value.value>>)
    IN  IF ~key.ok \/ colon = 0 \/ ~value.ok THEN [ok |-> FALSE, data |-> <<>>]
        ELSE IF Char(text, next) = "," THEN ParseMembers(text, next + 1, pairs)
        ELSE IF Char(text, next) = "}" /\ Spaces(text, next + 1) = Len(text) + 1
             THEN [ok |-> TRUE, data |-> pairs]
        ELSE [ok |-> FALSE, data |-> <<>>]

\* json.loads(text) for the texts of the model: an object whose values are
\* strings, keys not repeated; anything else in the model is not JSON
json_loads(text) ==
    LET open == Literal(text, Spaces(text, 1), "{")
    IN  IF open = 0 THEN [ok |-> FALSE, data |-> <<>>]
        ELSE IF Char(text, Spaces(text, open)) = "}"
                /\ Spaces(text, Spaces(text, open) + 1) = Len(text) + 1
             THEN [ok |-> TRUE, data |-> <<>>]
        ELSE ParseMembers(text, open, <<>>)

\* json.dumps(data, indent=2)
json_dumps(data) ==
    IF data = <<>> THEN "{}"
    ELSE "{\n"
         \o Join([k \in 1..Len(data) |->
                    "  \"" \o data[k][1] \o "\": \"" \o data[k][2] \o "\""], ",\n")
         \o "\n}"

\* key in data
HasKey(data, key) == \E k \in 1..Len(data) : data[k][1] = key

\* not data.get(key): the key is absent or its value is the empty string
Falsy(data, key) == \A k \in 1..Len(data) : data[k][1] = key => data[k][2] = ""

\* data[key] = value
SetKey(data, key, value) ==
    IF HasKey(data, key)
    THEN [k \in 1..Len(data) |-> IF data[k][1] = key THEN <<key, value>> ELSE data[k]]
    ELSE Append(data, <<key, value>>)

\* lines 306-348: the issues of a package.json that parsed to data; no
\* package.json of the model has a "scripts" key
package_issues(data, fix) ==
    IssueIf(Falsy(data, "name"), "error", "JS002", "package.json", FALSE)
    \o IssueIf(Falsy(data, "version"), "warning", "JS003", "package.json", fix)
    \o IssueIf(~HasKey(data, "scripts"), "warning", "JS004", "package.json", FALSE)
    \o IssueIf(Falsy(data, "main") /\ Falsy(data, "module") /\ Falsy(data, "exports"),
               "info", "JS005", "package.json", FALSE)

\* lines 325-328
AfterVersion(data, fix) ==
    IF fix /\ Falsy(data, "version") THEN SetKey(data, "version", "0.1.0") ELSE data

\* lines 306-353 for a package.json that parsed: the issues, and the file
\* written when json.dumps of the data changed and auto_fix is set
PackageDiagnosis(tr, parsed, fix) ==
    IF ~parsed.ok
    THEN [issues |-> <<Issue("error", "JS001", "package.json", FALSE)>>, tree |-> tr]
    ELSE [issues |-> package_issues(parsed.data, fix),
          tree |-> IF fix /\ json_dumps(AfterVersion(parsed.data, fix)) # json_dumps(parsed.data)
                   THEN [tr EXCEPT ![<<"package.json">>] =
                            json_dumps(AfterVersion(parsed.data, fix)) \o "\n"]
                   ELSE tr]

\* _diagnose_nodejs(project_dir, auto_fix)
diagnose_nodejs(tr, fix) ==
    IF ~Exists(tr, <<"package.json">>) THEN [issues |-> <<>>, tree |-> tr]
    ELSE PackageDiagnosis(tr, json_loads(tr[<<"package.json">>]), fix)

\* _diagnose_rust(project_dir, auto_fix)
diagnose_rust(tr, fix) ==
    IF ~Exists(tr, <<"Cargo.toml">>) THEN [issues |-> <<>>, tree |-> tr]
    ELSE [issues |->
            IssueIf(\A i \in LineStarts(tr[<<"Cargo.toml">>]) :
                        Literal(tr[<<"Cargo.toml">>], i, "[package]") = 0,
                    "error", "RS001", "Cargo.toml", FALSE)
            \o IssueIf(~Contains(tr[<<"Cargo.toml">>], "edition"),
                       "warning", "RS002", "Cargo.toml", FALSE),
          tree |-> tr]

\* _diagnose_go(project_dir, auto_fix)
diagnose_go(tr, fix) ==
    IF ~Exists(tr, <<"go.mod">>) THEN [issues |-> <<>>, tree |-> tr]
    ELSE [issues |->
            IssueIf(~StartsWith(StripChars(tr[<<"go.mod">>], Whitespace), "module "),
                    "error", "GO001", "go.mod", FALSE)
            \o IssueIf(~Exists(tr, <<"go.sum">>) /\ Contains(tr[<<"go.mod">>], "require"),
                       "warning", "GO002", "go.sum", FALSE),
          tree |-> tr]

\* _diagnose_ruby(project_dir, auto_fix)
diagnose_ruby(tr, fix) ==
    [issues |-> IssueIf(Exists(tr, <<"Gemfile">>) /\ ~Exists(tr, <<"Gemfile.lock">>),
                        "warning", "RB001", "Gemfile.lock", FALSE),
     tree |-> tr]

\* lines 453-481 for a composer.json that parsed
ComposerDiagnosis(tr, parsed) ==
    IF ~parsed.ok
    THEN [issues |-> <<Issue("error", "PHP001", "composer.json", FALSE)>>, tree |-> tr]
    ELSE [issues |->
            IssueIf(Falsy(parsed.data, "autoload") /\ Falsy(parsed.data, "autoload-dev"),
                    "warning", "PHP002", "composer.json", FALSE)
            \o IssueIf(~Exists(tr, <<"composer.lock">>) /\ ~Falsy(parsed.data, "require"),
                       "warning", "PHP003", "composer.lock", FALSE),
          tree |-> tr]

\* _diagnose_php(project_dir, auto_fix)
diagnose_php(tr, fix) ==
    IF ~Exists(tr, <<"composer.json">>) THEN [issues |-> <<>>, tree |-> tr]
    ELSE ComposerDiagnosis(tr, json_loads(tr[<<"composer.json">>]))

\* the *.csproj and *.fsproj files of the project directory; the model has
\* at most one
ProjectFiles(tr) ==
    {p \in DOMAIN tr : Len(p) = 1 /\ (EndsWith(p[1], ".csproj") \/ EndsWith(p[1], ".fsproj"))}

\* _diagnose_dotnet(project_dir, auto_fix)
diagnose_dotnet(tr, fix) ==
    [issues |->
        IF \E p \in ProjectFiles(tr) : ~Contains(tr[p], "<TargetFramework")
        THEN LET p == CHOOSE q \in ProjectFiles(tr) : ~Contains(tr[q], "<TargetFramework")
             IN  <<Issue("warning", "NET001", p[1], FALSE)>>
        ELSE <<>>,
     tree |-> tr]

\* _diagnose_java(project_dir, auto_fix)
diagnose_java(tr, fix) ==
    [issues |->
        IssueIf(Exists(tr, <<"pom.xml">>) /\ ~Contains(tr[<<"pom.xml">>], "<modelVersion>"),
                "warning", "JV001", "pom.xml", FALSE)
        \o IssueIf(/\ ~Exists(tr, <<"pom.xml">>)
                   /\ ~Exists(tr, <<"build.gradle">>)
                   /\ ~Exists(tr, <<"build.gradle.kts">>),
                   "info", "JV002", "", FALSE),
     tree |-> tr]

\* the keys of _DIAGNOSTICS
ProjectTypes == {"python", "nodejs", "rust", "go", "ruby", "php", "dotnet", "java"}

\* diagnose_project(project_dir, project_type, auto_fix): the issues of the
\* report and the project tree left behind
diagnose_project(tr, project_type, fix) ==
    CASE project_type = "python" -> diagnose_python(tr, fix)
      [] project_type = "nodejs" -> diagnose_nodejs(tr, fix)
      [] project_type = "rust" -> diagnose_rust(tr, fix)
      [] project_type = "go" -> diagnose_go(tr, fix)
      [] project_type = "ruby" -> diagnose_ruby(tr, fix)
      [] project_type = "php" -> diagnose_php(tr, fix)
      [] project_type = "dotnet" -> diagnose_dotnet(tr, fix)
      [] project_type = "java" -> diagnose_java(tr, fix)
      [] OTHER -> [issues |-> <<>>, tree |-> tr]

-----------------------------------------------------------------------------
(* project_doctor: the projects diagnosed *)

\* the tree that holds the given <<path, text>> pairs
ProjectTree(pairs) ==
    [p \in {f[1] : f \in pairs} |-> (CHOOSE f \in pairs : f[1] = p)[2]]

\* pyproject.toml texts: one per check, one that several checks apply to,
\* one nothing applies to
PyprojectTexts ==
    {"[project]\nname = \"x\"\n",
     "[build-system]\nbuild-backend = \"setuptools.build_meta\"\n\n[project]\nname = \"x\"\nrequires-python = \">=3.8\"\n",
     "[build-system]\n[project]\nrequires-python = \">=3.8\"\nclassifiers = [\n    \"Development Status :: 3 - Alpha\",\n    \"License :: OSI Approved :: MIT License\",\n]\n",
     "[build-system]\nbuild-backend = \"setuptools.backends._legacy\"\n[project]\nrequires-python = \">=3.8\"\n",
     "[build-system]\n[project]\nrequires-python = \">=3.8\"\nlicense = {text = \"MIT\"}\n",
     "[build-system]\n[project]\nrequires-python = \">=3.8\"\nauthors = [\n    {name = \"A\"},\n    {name = \"B\"},\n    {name = \"A\"},\n]\n",
     "[build-system]\n[project]\nrequires-python = \">=3.8\"\nclassifiers = []\n",
     "[project]\nlicense = { text = \"MIT\" }\nclassifiers = [\n  \"License  ::  OSI Approved :: MIT\"\n]\nbuild-backend = \"setuptools.backends._legacy\"\n",
     ""}

\* what a Python project holds
PythonFiles ==
    {{}, {<<<<"requirements.txt">>, "click\n">>}, {<<<<"setup.py">>, "setup()\n">>}}
    \cup {{<<<<"pyproject.toml">>, text>>} : text \in PyprojectTexts}
    \cup {{<<<<"pyproject.toml">>, "[project]\nname = \"x\"\n">>,
           <<<<"requirements.txt">>, "click\n">>}}

\* what a project of another type holds
OtherFiles ==
    {{},
     {<<<<"package.json">>, "{\"name\": \"x\", \"version\": \"1.0.0\", \"main\": \"i.js\"}\n">>},
     {<<<<"package.json">>, "{\"name\": \"x\"}">>},
     {<<<<"package.json">>, "{\n  \"version\": \"\"\n}\n">>},
     {<<<<"package.json">>, "{}">>},
     {<<<<"package.json">>, "{\"name\": x}">>},
     {<<<<"Cargo.toml">>, "[package]\nname = \"x\"\nedition = \"2021\"\n">>},
     {<<<<"Cargo.toml">>, "[lib]\n">>},
     {<<<<"go.mod">>, "module x\n\nrequire y v1.0.0\n">>},
     {<<<<"go.mod">>, "go 1.21\n">>, <<<<"go.sum">>, "">>},
     {<<<<"Gemfile">>, "source 'https://rubygems.org'\n">>},
     {<<<<"composer.json">>, "{\"require\": \"php\"}">>},
     {<<<<"composer.json">>, "{\"autoload\": \"psr-4\"}">>, <<<<"composer.lock">>, "{}">>},
     {<<<<"composer.json">>, "[">>},
     {<<<<"app.csproj">>, "<Project></Project>\n">>},
     {<<<<"pom.xml">>, "<project></project>\n">>},
     {<<<<"build.gradle">>, "plugins {}\n">>}}

DoctorTrees == {ProjectTree(py \cup other) : py \in PythonFiles, other \in OtherFiles}

\* diagnose_project is called with a project type and auto_fix
DoctorOptions ==
    [cmd : {"doctor"}, project_type : ProjectTypes \cup {"unknown_lang"}, auto_fix : BOOLEAN]

InitDoctor ==
    /\ opts \in DoctorOptions
    /\ analysis = NoAnalysis
    /\ commit_title = ""
    /\ commit_msg = ""
    /\ validation = NoValidation
    /\ suggested = BlankSummary
    /\ trace = <<>>
    /\ commits = <<>>
    /\ nulls = {}
    /\ diff_content = ""
    /\ world = StagedRepository
    /\ io = <<>>
    /\ tree \in DoctorTrees
    /\ new_version = ""
    /\ pc = "doctor"
    /\ files = <<"pyproject.toml">>
    /\ entities = <<>>
    /\ added = 0
    /\ deleted = 0
    /\ config = EmptyConfig
    /\ contents = NoContents
    /\ summary = BlankSummary
    /\ out = <<>>

\* the dispatcher without auto_fix=auto_fix in its call: the diagnostics run
\* with their default, auto_fix=True
DiagnoseProject_default_fix ==
    /\ pc = "doctor"
    /\ out' = diagnose_project(tree, opts.project_type, TRUE).issues
    /\ tree' = diagnose_project(tree, opts.project_type, TRUE).tree
    /\ pc' = "diagnosed"
    /\ UNCHANGED <<nulls, diff_content, world, io, new_version>>
    /\ UNCHANGED <<files, entities, added, deleted, config, contents, summary>>
    /\ UNCHANGED cliVars

\* diagnose_project(project_dir, project_type, auto_fix); out is
\* report.issues
DiagnoseProject ==
    /\ pc = "doctor"
    /\ out' = diagnose_project(tree, opts.project_type, opts.auto_fix).issues
    /\ tree' = diagnose_project(tree, opts.project_type, opts.auto_fix).tree
    /\ pc' = "diagnosed"
    /\ UNCHANGED <<nulls, diff_content, world, io, new_version>>
    /\ UNCHANGED <<files, entities, added, deleted, config, contents, summary>>
    /\ UNCHANGED cliVars

NextDoctor == DiagnoseProject

SpecDoctor == InitDoctor /\ [][NextDoctor]_vars

-----------------------------------------------------------------------------
(* project_doctor: claims *)

\* C19: Diagnosing a project with auto_fix=False is read-only: the
\* project's files are left unchanged and no reported issue has
\* fixed == True.
C19_NoFixIsReadOnly ==
    [][(pc = "doctor" /\ ~opts.auto_fix) =>
          /\ tree' = tree
          /\ \A k \in 1..Len(out') : ~out'[k].fixed]_vars

\* a pyproject.toml without [build-system] was diagnosed with
\* auto_fix=False: PY002 is reported, not fixed, and the section is still
\* missing
C19_Witness ==
    /\ pc = "diagnosed"
    /\ ~opts.auto_fix
    /\ opts.project_type = "python"
    /\ \E k \in 1..Len(out) : out[k].code = "PY002" /\ ~out[k].fixed
    /\ ~Contains(tree[<<"pyproject.toml">>], "[build-system]")

\* with auto_fix=True the same diagnosis writes the file
C19_FixWrites ==
    /\ pc = "diagnosed"
    /\ opts.auto_fix
    /\ \E k \in 1..Len(out) : out[k].code = "PY002" /\ out[k].fixed
    /\ StartsWith(tree[<<"pyproject.toml">>], BUILD_SYSTEM)

-----------------------------------------------------------------------------
(* the relation list of a summary: claims *)

RECURSIVE C22_Distinct(_, _)
\* the edges of a list that touch no generic node and join two different
\* modules, each (from, to) pair once, in the order of the list
C22_Distinct(edges, seen) ==
    IF edges = <<>> THEN <<>>
    ELSE IF \/ Lower(Head(edges).from) \in GENERIC_NODES
            \/ Lower(Head(edges).to) \in GENERIC_NODES
            \/ Head(edges).from = Head(edges).to
            \/ <<Head(edges).from, Head(edges).to>> \in seen
         THEN C22_Distinct(Tail(edges), seen)
    ELSE <<Head(edges)>>
            \o C22_Distinct(Tail(edges), seen \cup {<<Head(edges).from, Head(edges).to>>})

\* the first 10 of them
C22_FirstTen(edges) ==
    SubSeq(C22_Distinct(edges, {}), 1,
           IF Len(C22_Distinct(edges, {})) > 10 THEN 10 ELSE Len(C22_Distinct(edges, {})))

\* C22: edges touching a generic node are removed before the cap of 10 is
\* applied: the relation list of a generated summary, and of the result of
\* auto_fix, is the first 10 distinct, non-self-loop edges among the edges
\* detected (handed in) that touch no generic node.
C22_FilterBeforeCap ==
    /\ pc = "generated" =>
          summary.relations
             = C22_FirstTen(detect_file_relations(dedupe_files(files), contents))
    /\ (pc = "fixed" /\ out.arg.has_relations) =>
          summary.relations = C22_FirstTen(out.arg.relations)

\* the part of C22 that holds: auto_fix filters the generic nodes, then
\* removes duplicates and self-loops, then cuts at 10
C22_AutoFixFiltersFirst ==
    (pc = "fixed" /\ out.arg.has_relations) =>
        summary.relations = C22_FirstTen(out.arg.relations)

\* auto_fix on 27 edges with two generic edges and a self-loop in front:
\* the ten edges kept are the first ten clean ones
C22_AutoFixReached ==
    /\ pc = "fixed"
    /\ Len(out.arg.relations) > 12
    /\ Len(summary.relations) = 10
    /\ summary.relations = C22_FirstTen(out.arg.relations)

\* a generated summary that lacks a clean edge: the cut at 10 came first
C22_GenerateCutsFirst ==
    /\ pc = "generated"
    /\ Len(detect_file_relations(dedupe_files(files), contents)) > 10
    /\ Len(summary.relations) < Len(C22_FirstTen(detect_file_relations(dedupe_files(files), contents)))

-----------------------------------------------------------------------------
(* validate: the intent gate, claims *)

\* the validation reports one of the two intent errors
C23_IntentError ==
    \E k \in 1..Len(out.errors) :
        out.errors[k] \in {"reclassify_intent", "fix_hidden_refactor"}

\* what classify_intent_smart gives for the files and the line counts of
\* the summary
C23_Reclassified ==
    classify_intent_smart(files, summary.added_entities,
                          summary.metrics.lines_added, summary.metrics.lines_deleted)

\* C23: validate reports an intent-consistency error whenever the declared
\* intent is feat and the reclassification gives refactor, and whenever
\* lines deleted >= 250 and the declared intent is anything other than
\* refactor.
C23_IntentConsistency ==
    pc \in {"validated", "revalidated"} =>
        /\ (DeclaredIntent(summary) = "feat" /\ C23_Reclassified = "refactor")
              => C23_IntentError
        /\ (summary.metrics.lines_deleted >= 250
              /\ DeclaredIntent(summary) \notin {"", "refactor"})
              => C23_IntentError

\* the part of C23 that holds: feat reclassified as refactor is an error,
\* and so is fix with deleted >= 250 reclassified as refactor
C23_FeatOrFixReclassified ==
    pc \in {"validated", "revalidated"} =>
        /\ (DeclaredIntent(summary) = "feat" /\ C23_Reclassified = "refactor")
              => C23_IntentError
        /\ (summary.metrics.lines_deleted >= 250
              /\ DeclaredIntent(summary) \in {"feat", "fix"}
              /\ C23_Reclassified = "refactor")
              => C23_IntentError

\* a docs title with 300 deleted lines validated without an intent error
C23_DocsLargeDeletion ==
    /\ pc = "validated"
    /\ DeclaredIntent(summary) = "docs"
    /\ summary.metrics.lines_deleted >= 250
    /\ ~C23_IntentError

-----------------------------------------------------------------------------
(* validate: the duplicate-files gate, claims *)

\* two files of the list share a basename
C24_SharedBasename ==
    \E i, j \in 1..Len(files) : i < j /\ PathName(files[i]) = PathName(files[j])

\* the validation reports the duplicate-files error
C24_DuplicateFilesError ==
    \E k \in 1..Len(out.errors) : out.errors[k] = "dedupe_files"

\* C24: validate reports a duplicate-files error whenever the file list
\* holds more duplicate basenames than the tolerance; with the default
\* tolerance 0, whenever any two files of the list share a basename.
C24_AnySharedBasename ==
    (pc \in {"validated", "revalidated"} /\ C24_SharedBasename)
        => C24_DuplicateFilesError

\* what the gate tests: fewer than 80% of the files have a basename of
\* their own
C24_UniqueRatioBelowFourFifths ==
    pc \in {"validated", "revalidated"} =>
        (C24_DuplicateFilesError <=>
            (files # <<>> /\ UniqueRatioDen * Cardinality({PathName(files[i]) : i \in 1..Len(files)})
                                < UniqueRatioNum * Len(files)))

\* five files, two of them named api.py, validated without the
\* duplicate-files error
C24_OneInFiveTolerated ==
    /\ pc = "validated"
    /\ Len(files) = 5
    /\ C24_SharedBasename
    /\ ~C24_DuplicateFilesError

-----------------------------------------------------------------------------
(* validate: the duplicate-relations gate, claims *)

\* the relation list validate reads from the summary
C25_Relations == IF summary.has_relations THEN summary.relations ELSE <<>>

\* the number of edges of the list that repeat the (from, to) of an earlier
\* edge
C25_RepeatedEdges ==
    Cardinality({i \in 1..Len(C25_Relations) :
                    \E j \in 1..(i - 1) : Edge(C25_Relations[j]) = Edge(C25_Relations[i])})

\* the validation reports the duplicate-relations error
C25_DuplicateRelationsError ==
    \E k \in 1..Len(out.errors) : out.errors[k] = "dedupe_relations"

\* C25: validate reports a duplicate-relations error if and only if the
\* relation list contains more repeated (from, to) edges than the tolerance
\* (default 0); pairwise distinct edges never trigger it, whatever the length
\* of the list.
C25_ErrorIffRepeatedEdges ==
    pc \in {"validated", "revalidated"} =>
        (C25_DuplicateRelationsError
            <=> C25_RepeatedEdges > config.max_duplicate_relations)

\* what holds: repeated edges beyond the tolerance always give the error,
\* and a list of at most ten edges without a self-loop gives it only then
C25_ShortListsWithoutLoops ==
    pc \in {"validated", "revalidated"} =>
        /\ C25_RepeatedEdges > config.max_duplicate_relations
                => C25_DuplicateRelationsError
        /\ (/\ Len(C25_Relations) <= 10
            /\ \A i \in 1..Len(C25_Relations) :
                    C25_Relations[i].from # C25_Relations[i].to)
                => (C25_DuplicateRelationsError
                        => C25_RepeatedEdges > config.max_duplicate_relations)

\* eleven pairwise distinct edges validated with the duplicate-relations
\* error
C25_ElevenDistinctEdges ==
    /\ pc = "validated"
    /\ Len(C25_Relations) = 11
    /\ C25_RepeatedEdges = 0
    /\ C25_DuplicateRelationsError

\* a self-loop next to distinct edges validated with the error
C25_SelfLoopCounted ==
    /\ pc = "validated"
    /\ Len(C25_Relations) <= 10
    /\ C25_RepeatedEdges = 0
    /\ C25_DuplicateRelationsError

-----------------------------------------------------------------------------
(* validate: one entry per failing gate, claims *)

\* the gate an entry of errors or warnings belongs to: the two intent errors
\* are the two tests of the one intent-consistency gate
C26_GateOf(kind) ==
    IF kind \in {"reclassify_intent", "fix_hidden_refactor"}
    THEN "intent_consistency"
    ELSE kind

\* the gates that failed in the validation held by out
C26_FailingGates ==
    {C26_GateOf(out.errors[k]) : k \in 1..Len(out.errors)}
    \cup {C26_GateOf(out.warnings[k]) : k \in 1..Len(out.warnings)}

\* C26: each failing gate contributes exactly one entry to errors or
\* warnings: the number of errors plus warnings equals the number of failing
\* gates, so that each failing gate costs 20 (error) or 5 (warning) points.
C26_OneEntryPerGate ==
    pc \in {"validated", "revalidated"} =>
        Len(out.errors) + Len(out.warnings) = Cardinality(C26_FailingGates)

\* what holds: no entry is reported twice, and the only gate with two
\* entries is the intent gate
C26_OneEntryPerTest ==
    pc \in {"validated", "revalidated"} =>
        /\ \A j, k \in 1..Len(out.errors) : out.errors[j] = out.errors[k] => j = k
        /\ Len(out.warnings) <= 1
        /\ Len(out.errors) + Len(out.warnings) =
              Cardinality(C26_FailingGates)
              + (IF {"reclassify_intent", "fix_hidden_refactor"} \subseteq Range(out.errors)
                 THEN 1 ELSE 0)
        /\ out.score = Max(0, 100 - ErrorPenalty * Len(out.errors)
                                  - WarningPenalty * Len(out.warnings))

\* the intent gate alone fails and the score is 60
C26_IntentGateCostsForty ==
    /\ pc = "validated"
    /\ C26_FailingGates = {"intent_consistency"}
    /\ Len(out.errors) = 2
    /\ out.score = 60

-----------------------------------------------------------------------------
(* auto_fix: the fix log, claims *)

\* the step named kind is in the fix log of the fixed summary
C27_Logged(kind) ==
    \E k \in 1..Len(summary.applied_fixes) : summary.applied_fixes[k] = kind

\* the step named kind left a field of the summary other than it was handed
\* in; the file list is no field of the summary and no step writes it
C27_Changed(kind) ==
    CASE kind \in {"title", "intent"} ->
            summary.title # out.arg.title \/ summary.intent # out.arg.intent
      [] kind = "relations" -> summary.relations # out.arg.relations
      [] kind = "files" -> summary.files # out.arg.files
      [] kind = "capabilities" -> summary.capabilities # out.arg.capabilities
      [] kind = "net_lines" -> summary.net_lines # out.arg.net_lines
      [] kind = "categorized" -> summary.categories # out.arg.categories

C27_Steps ==
    {"title", "intent", "relations", "files", "capabilities", "net_lines",
     "categorized"}

\* C27: auto_fix appends an entry to applied_fixes for a correction step only
\* when that step changed the summary; a step that leaves the summary as it
\* was adds nothing to the fix log.
C27_LoggedOnlyOnChange ==
    pc = "fixed" => \A kind \in C27_Steps : C27_Logged(kind) => C27_Changed(kind)

\* what holds: the relation step is logged exactly when it changed the
\* relation list
C27_RelationsLoggedOnChange ==
    pc = "fixed" => (C27_Logged("relations") <=> C27_Changed("relations"))

\* a capability list already in priority order is logged as reordered
C27_ReorderLoggedWithoutChange ==
    /\ pc = "fixed"
    /\ summary.has_capabilities
    /\ summary.capabilities = out.arg.capabilities
    /\ C27_Logged("capabilities")

\* a file list with a shared basename is logged as deduplicated while the
\* summary keeps its file list
C27_DedupeFilesLoggedWithoutChange ==
    /\ pc = "fixed"
    /\ C27_Logged("files")
    /\ summary.files = out.arg.files

-----------------------------------------------------------------------------
(* validate: the banned-word gate, claims *)

\* the words of a text: its maximal runs of letters, in lower case
C28_Words(text) ==
    LET t == Lower(text)
    IN  {SubSeq(t, i, RunEnd(t, i)) : i \in RunStarts(t)}

\* the validation reports the banned-word error
C28_BannedWordError ==
    \E k \in 1..Len(out.errors) : out.errors[k] = "remove_banned_words"

\* C28: for a type(scope): description title the banned-word gate reports an
\* error exactly when the description, the text after the type(scope):
\* prefix, contains a word of the banned set as a whole word, compared
\* case-insensitively; the type token and the scope never trigger it.
C28_DescriptionOnly ==
    (pc \in {"validated", "revalidated"} /\ MatchConventional(summary.title).ok)
        => (C28_BannedWordError
              <=> BannedWords(config)
                    \cap C28_Words(MatchConventional(summary.title).rest) # {})

\* what holds: the gate reads the text after the first colon of the title,
\* which is the description when the scope holds no colon
C28_AfterFirstColon ==
    pc \in {"validated", "revalidated"} =>
        /\ C28_BannedWordError
              <=> BannedWords(config) \cap C28_Words(Description(summary.title)) # {}
        /\ (/\ MatchConventional(summary.title).ok
            /\ FirstIndexFrom(MatchConventional(summary.title).scope, ":", 1) = 0)
              => (C28_BannedWordError
                    <=> BannedWords(config)
                          \cap C28_Words(MatchConventional(summary.title).rest) # {})

\* a banned word in the scope, after a colon, reported as a banned word of
\* the title
C28_ScopeTriggers ==
    /\ pc = "validated"
    /\ MatchConventional(summary.title).ok
    /\ MatchConventional(summary.title).scope = "api:fix"
    /\ BannedWords(config) \cap C28_Words(MatchConventional(summary.title).rest) = {}
    /\ C28_BannedWordError

\* the banned type token fix in front of a clean scope is not reported
C28_TypeTokenIgnored ==
    /\ pc = "validated"
    /\ MatchConventional(summary.title).type = "fix"
    /\ C28_BannedWordError
    /\ "fix" \notin has_banned_words(BannedWords(config), summary.title)

-----------------------------------------------------------------------------
(* auto_fix applied to its own result, claims *)

\* C30: auto_fix reaches a fixed point in one pass: applied to its own result
\* with the same files and counts it returns the same title, intent, relation
\* list and capability order.
C30_FixedPointInOnePass ==
    pc = "refixed" =>
        /\ summary.title = out.arg.title
        /\ summary.intent = out.arg.intent
        /\ summary.has_relations = out.arg.has_relations
        /\ summary.relations = out.arg.relations
        /\ summary.has_capabilities = out.arg.has_capabilities
        /\ summary.capabilities = out.arg.capabilities

\* the second call found banned words in the title the first call wrote and
\* wrote the title anew
C30_Witness ==
    /\ pc = "refixed"
    /\ \E k \in 1..Len(summary.applied_fixes) : summary.applied_fixes[k] = "title"
    /\ \E k \in 1..Len(out.arg.applied_fixes) : out.arg.applied_fixes[k] = "title"

\* the second call on ten kept relations and on capabilities of one priority
C30_SortedAndCapped ==
    /\ pc = "refixed"
    /\ \/ Len(summary.relations) = 10
       \/ /\ Len(summary.capabilities) >= 2
          /\ CapabilityPriority(summary.capabilities[1])
                = CapabilityPriority(summary.capabilities[2])

-----------------------------------------------------------------------------
(* push: the changelog, claims *)

\* the number of entries of CHANGELOG.md for the version of the run: the
\* lines that start with "## [version]"
C29_Entries ==
    IF <<"CHANGELOG.md">> \notin DOMAIN tree THEN 0
    ELSE LET text == tree[<<"CHANGELOG.md">>]
             head == "## [" \o BumpedVersion \o "]"
         IN  Cardinality({i \in 1..Len(text) :
                            /\ Literal(text, i, head) # 0
                            /\ (i = 1 \/ Char(text, i - 1) = "\n")})

\* C29: in one run of push update_changelog is applied at most once, so that
\* a successful run adds exactly one CHANGELOG.md entry for the new version,
\* with or without --split.
C29_OneChangelogEntry ==
    opts.cmd = "push" =>
        /\ C29_Entries <= 1
        /\ (pc = "committed" /\ ~opts.no_changelog) => C29_Entries = 1

\* what a run leaves: no entry with --no-changelog, two in the split mode,
\* one in the single-commit mode
C29_SingleCommitOneEntry ==
    (opts.cmd = "push" /\ pc = "committed") =>
        C29_Entries = (IF opts.no_changelog THEN 0
                       ELSE IF opts.split /\ opts.message = "" THEN 2
                       ELSE 1)

\* a split run that ended with two entries for the new version
C29_SplitWritesTwice ==
    /\ pc = "committed"
    /\ opts.split
    /\ C29_Entries = 2
    /\ commits # <<>> /\ commits[Len(commits)].group = "release"

\* a single-commit run that ended with one entry in front of the old one
C29_SingleWritesOnce ==
    /\ pc = "committed"
    /\ ~opts.split
    /\ C29_Entries = 1
    /\ Contains(tree[<<"CHANGELOG.md">>], "## [1.0.0]")

=============================================================================
